---- MODULE Spec2Model ----
(***************************************************************************)
(* The invitation conduit of parsec.backend.invite: one invitation token,  *)
(* its conduit slot, and the greeter / claimer connections that run the    *)
(* conduit RPCs of BaseInviteComponent against it, together with the       *)
(* administrative RPCs invite_new, invite_delete, invite_list, invite_info *)
(* and the claimer presence tracker.                                       *)
(*                                                                         *)
(* conduit_exchange, NEXT_CONDUIT_STATE and the twelve api_invite_*        *)
(* handlers are translated from src/parsec/backend/invite.py.  The bodies  *)
(* of _conduit_talk, _conduit_listen and delete are abstract there (they   *)
(* raise NotImplementedError); they are modelled from sections 4.A, 4.B,    *)
(* 4.D.1 and 4.D.2 of the specification.                                   *)
(***************************************************************************)
EXTENDS Naturals, Sequences, FiniteSets, TLC

VARIABLES
    invitation,  \* status of the token's record: "ABSENT", "IDLE" or "DELETED"
    slot,        \* the conduit slot of the token, or NoSlot
    pc,          \* per connection: where its request handler stands
    req,         \* per connection: the request being handled
    ctx,         \* per connection: the ConduitListenCtx of its exchange
    waiter,      \* per connection: the event of its conduit_updated waiter
    reply,       \* per connection: the last response sent back
    pos,         \* per connection: number of requests answered so far
    script,      \* per connection: the requests a scripted client issues
    del_rep,     \* the last response given to invite_delete, or None
    deleted,        \* deleted_on and deleted_reason of the token's record
    claimers_ready, \* self._claimers_ready[organization_id]
    invitations,    \* the records created by invite_new
    joined,         \* the claimer connections between claimer_joined and claimer_left
    adm_log,        \* the administrative requests answered so far, in order
    others,         \* record status and conduit slot of the other (organization, token)
    filter_key,     \* per connection: the (organization_id, token) its requests name
    ready_others,   \* _claimers_ready of the other organizations
    last_status,    \* per (organization, token): status of its latest status_changed event
    msg_arrived,    \* monitor_messages: the trio.Event msg_arrived is set
    backend_online_event,          \* monitor_messages: the trio.Event is set
    process_message_cancel_scope,  \* monitor_messages: None, or the scope, open or cancelled
    mon_pc,         \* monitor_messages: where the task stands
    backend,        \* the last of backend.online / backend.offline that fired
    msg_index,      \* message events fired so far
    notified        \* events fired since fs.process_messages was last called: "message"
                    \* (one that fired while online), "online"

conduit_vars == <<invitation, slot, pc, req, ctx, waiter, reply, pos, script, del_rep>>
store_vars == <<deleted, claimers_ready, invitations, joined, adm_log>>
key_vars == <<others, filter_key>>
presence_vars == <<ready_others, last_status>>
monitor_vars == <<msg_arrived, backend_online_event, process_message_cancel_scope,
                  mon_pc, backend, msg_index, notified>>
rest_vars == <<presence_vars, monitor_vars>>
vars == <<invitation, slot, pc, req, ctx, waiter, reply, pos, script, del_rep,
          deleted, claimers_ready, invitations, joined, adm_log, others, filter_key,
          ready_others, last_status, msg_arrived, backend_online_event,
          process_message_cancel_scope, mon_pc, backend, msg_index, notified>>

(***************************************************************************)
(* Bounds of the model.                                                    *)
(***************************************************************************)
MaxCalls == 2
Rounds == 3

\* PEER_EVENT_MAX_WAIT = 300  # 5mn  (conduit_exchange does not use it)
PEER_EVENT_MAX_WAIT == 300
MaxAdmin == 3
MaxNew == 2

(***************************************************************************)
(* Connections.  g1, g2 are connections of the invitation's greeter,       *)
(* c1, c2 connections of the claimer (greeter=None in the source), and b1  *)
(* a connection of another authenticated user of the organization.         *)
(***************************************************************************)
Greeters == {"g1", "g2"}
Claimers == {"c1", "c2"}
Others == {"b1"}
Procs == Greeters \cup Claimers \cup Others

\* ConduitListenCtx.is_greeter: greeter is not None
is_greeter(p) == p \notin Claimers

\* client_ctx.user_id of the authenticated connections
Users == {"alice", "bob"}

\* A slip in the handlers: the record's greeter passed instead of the caller.
user_id_of_record(p) == IF p \in Claimers THEN "None" ELSE "alice"

user_id(p) == IF p \in Greeters THEN "alice" ELSE IF p \in Others THEN "bob" ELSE "None"

\* greeter_user_id of the token's record, and the token itself
Owner == "alice"
Token == 1
TokenType == "DEVICE"

(***************************************************************************)
(* Payloads are byte strings; None is Python's None (absent).              *)
(***************************************************************************)
None == "None"
Empty == ""
PayloadValues == {"x", "y"}

(***************************************************************************)
(* ConduitState and NEXT_CONDUIT_STATE.                                    *)
(***************************************************************************)
STATE_1_WAIT_PEERS == "1_WAIT_PEERS"
STATE_2_1_CLAIMER_HASHED_NONCE == "2_1_CLAIMER_HASHED_NONCE"
STATE_2_2_GREETER_NONCE == "2_2_GREETER_NONCE"
STATE_2_3_CLAIMER_NONCE == "2_3_CLAIMER_NONCE"
STATE_3_1_CLAIMER_TRUST == "3_1_CLAIMER_TRUST"
STATE_3_2_GREETER_TRUST == "3_2_GREETER_TRUST"
STATE_4_COMMUNICATE == "4_COMMUNICATE"

ConduitState ==
    << STATE_1_WAIT_PEERS, STATE_2_1_CLAIMER_HASHED_NONCE, STATE_2_2_GREETER_NONCE,
       STATE_2_3_CLAIMER_NONCE, STATE_3_1_CLAIMER_TRUST, STATE_3_2_GREETER_TRUST,
       STATE_4_COMMUNICATE >>

ConduitStates == {ConduitState[i] : i \in 1..Len(ConduitState)}

\* Position of a state in the declaration order of the enum.
StateIndex(s) == CHOOSE i \in 1..Len(ConduitState) : ConduitState[i] = s

\* A slip in the table: STATE_3_2_GREETER_TRUST mapped back to STATE_3_1_CLAIMER_TRUST
\* and STATE_1_WAIT_PEERS mapped past STATE_2_1_CLAIMER_HASHED_NONCE.
NextConduitStateSlip(s) ==
    CASE s = STATE_1_WAIT_PEERS -> STATE_2_2_GREETER_NONCE
      [] s = STATE_2_1_CLAIMER_HASHED_NONCE -> STATE_2_2_GREETER_NONCE
      [] s = STATE_2_2_GREETER_NONCE -> STATE_2_3_CLAIMER_NONCE
      [] s = STATE_2_3_CLAIMER_NONCE -> STATE_3_1_CLAIMER_TRUST
      [] s = STATE_3_1_CLAIMER_TRUST -> STATE_3_2_GREETER_TRUST
      [] s = STATE_3_2_GREETER_TRUST -> STATE_3_1_CLAIMER_TRUST
      [] s = STATE_4_COMMUNICATE -> STATE_4_COMMUNICATE

\* A table that wraps around: STATE_4_COMMUNICATE mapped to STATE_1_WAIT_PEERS.
NextConduitStateWraps(s) ==
    CASE s = STATE_1_WAIT_PEERS -> STATE_2_1_CLAIMER_HASHED_NONCE
      [] s = STATE_2_1_CLAIMER_HASHED_NONCE -> STATE_2_2_GREETER_NONCE
      [] s = STATE_2_2_GREETER_NONCE -> STATE_2_3_CLAIMER_NONCE
      [] s = STATE_2_3_CLAIMER_NONCE -> STATE_3_1_CLAIMER_TRUST
      [] s = STATE_3_1_CLAIMER_TRUST -> STATE_3_2_GREETER_TRUST
      [] s = STATE_3_2_GREETER_TRUST -> STATE_4_COMMUNICATE
      [] s = STATE_4_COMMUNICATE -> STATE_1_WAIT_PEERS

\* A slip in the table: STATE_1_WAIT_PEERS mapped to itself.
NextConduitStateStay(s) ==
    CASE s = STATE_1_WAIT_PEERS -> STATE_1_WAIT_PEERS
      [] s = STATE_2_1_CLAIMER_HASHED_NONCE -> STATE_2_2_GREETER_NONCE
      [] s = STATE_2_2_GREETER_NONCE -> STATE_2_3_CLAIMER_NONCE
      [] s = STATE_2_3_CLAIMER_NONCE -> STATE_3_1_CLAIMER_TRUST
      [] s = STATE_3_1_CLAIMER_TRUST -> STATE_3_2_GREETER_TRUST
      [] s = STATE_3_2_GREETER_TRUST -> STATE_4_COMMUNICATE
      [] s = STATE_4_COMMUNICATE -> STATE_4_COMMUNICATE

NEXT_CONDUIT_STATE(s) ==
    CASE s = STATE_1_WAIT_PEERS -> STATE_2_1_CLAIMER_HASHED_NONCE
      [] s = STATE_2_1_CLAIMER_HASHED_NONCE -> STATE_2_2_GREETER_NONCE
      [] s = STATE_2_2_GREETER_NONCE -> STATE_2_3_CLAIMER_NONCE
      [] s = STATE_2_3_CLAIMER_NONCE -> STATE_3_1_CLAIMER_TRUST
      [] s = STATE_3_1_CLAIMER_TRUST -> STATE_3_2_GREETER_TRUST
      [] s = STATE_3_2_GREETER_TRUST -> STATE_4_COMMUNICATE
      [] s = STATE_4_COMMUNICATE -> STATE_4_COMMUNICATE

(***************************************************************************)
(* The twelve conduit RPCs (the api_invite_1 .. api_invite_4 handlers):    *)
(* the side                                                                *)
(* that may call each, the conduit_exchange calls its handler makes in     *)
(* order (state, and whether the payload comes from the request or is      *)
(* b""), and whether the response carries the last peer payload.           *)
(***************************************************************************)
ClaimerRpcs ==
    { "invite_1_claimer_wait_peer", "invite_2a_claimer_send_hashed_nonce",
      "invite_2b_claimer_send_nonce", "invite_3a_claimer_signify_trust",
      "invite_3b_claimer_wait_peer_trust", "invite_4_claimer_communicate" }

GreeterRpcs ==
    { "invite_1_greeter_wait_peer", "invite_2a_greeter_get_hashed_nonce",
      "invite_2b_greeter_send_nonce", "invite_3a_greeter_wait_peer_trust",
      "invite_3b_greeter_signify_trust", "invite_4_greeter_communicate" }

Rpcs == ClaimerRpcs \cup GreeterRpcs

RpcsOf(p) == IF is_greeter(p) THEN GreeterRpcs ELSE ClaimerRpcs

Step(state, from_msg) == [state |-> state, from_msg |-> from_msg]

\* A slip in api_invite_2a_claimer_send_hashed_nonce: its two exchanges in the
\* wrong order.
RpcStepsReversed(rpc) ==
    CASE rpc = "invite_1_claimer_wait_peer" -> << Step(STATE_1_WAIT_PEERS, TRUE) >>
      [] rpc = "invite_1_greeter_wait_peer" -> << Step(STATE_1_WAIT_PEERS, TRUE) >>
      [] rpc = "invite_2a_claimer_send_hashed_nonce" ->
            << Step(STATE_2_2_GREETER_NONCE, FALSE),
               Step(STATE_2_1_CLAIMER_HASHED_NONCE, TRUE) >>
      [] rpc = "invite_2a_greeter_get_hashed_nonce" ->
            << Step(STATE_2_1_CLAIMER_HASHED_NONCE, FALSE) >>
      [] rpc = "invite_2b_greeter_send_nonce" ->
            << Step(STATE_2_2_GREETER_NONCE, TRUE),
               Step(STATE_2_3_CLAIMER_NONCE, FALSE) >>
      [] rpc = "invite_2b_claimer_send_nonce" -> << Step(STATE_2_3_CLAIMER_NONCE, TRUE) >>
      [] rpc = "invite_3a_greeter_wait_peer_trust" ->
            << Step(STATE_3_1_CLAIMER_TRUST, FALSE) >>
      [] rpc = "invite_3b_claimer_wait_peer_trust" ->
            << Step(STATE_3_2_GREETER_TRUST, FALSE) >>
      [] rpc = "invite_3b_greeter_signify_trust" ->
            << Step(STATE_3_2_GREETER_TRUST, FALSE) >>
      [] rpc = "invite_3a_claimer_signify_trust" ->
            << Step(STATE_3_1_CLAIMER_TRUST, FALSE) >>
      [] rpc = "invite_4_greeter_communicate" -> << Step(STATE_4_COMMUNICATE, TRUE) >>
      [] rpc = "invite_4_claimer_communicate" -> << Step(STATE_4_COMMUNICATE, TRUE) >>

RpcSteps(rpc) ==
    CASE rpc = "invite_1_claimer_wait_peer" -> << Step(STATE_1_WAIT_PEERS, TRUE) >>
      [] rpc = "invite_1_greeter_wait_peer" -> << Step(STATE_1_WAIT_PEERS, TRUE) >>
      [] rpc = "invite_2a_claimer_send_hashed_nonce" ->
            << Step(STATE_2_1_CLAIMER_HASHED_NONCE, TRUE),
               Step(STATE_2_2_GREETER_NONCE, FALSE) >>
      [] rpc = "invite_2a_greeter_get_hashed_nonce" ->
            << Step(STATE_2_1_CLAIMER_HASHED_NONCE, FALSE) >>
      [] rpc = "invite_2b_greeter_send_nonce" ->
            << Step(STATE_2_2_GREETER_NONCE, TRUE),
               Step(STATE_2_3_CLAIMER_NONCE, FALSE) >>
      [] rpc = "invite_2b_claimer_send_nonce" -> << Step(STATE_2_3_CLAIMER_NONCE, TRUE) >>
      [] rpc = "invite_3a_greeter_wait_peer_trust" ->
            << Step(STATE_3_1_CLAIMER_TRUST, FALSE) >>
      [] rpc = "invite_3b_claimer_wait_peer_trust" ->
            << Step(STATE_3_2_GREETER_TRUST, FALSE) >>
      [] rpc = "invite_3b_greeter_signify_trust" ->
            << Step(STATE_3_2_GREETER_TRUST, FALSE) >>
      [] rpc = "invite_3a_claimer_signify_trust" ->
            << Step(STATE_3_1_CLAIMER_TRUST, FALSE) >>
      [] rpc = "invite_4_greeter_communicate" -> << Step(STATE_4_COMMUNICATE, TRUE) >>
      [] rpc = "invite_4_claimer_communicate" -> << Step(STATE_4_COMMUNICATE, TRUE) >>

\* Whether the request of the RPC carries a payload chosen by the client.
RpcHasPayload(rpc) == \E i \in 1..Len(RpcSteps(rpc)) : RpcSteps(rpc)[i].from_msg

\* Whether the "ok" response carries the peer payload of the last exchange.
RpcReturnsPayload(rpc) ==
    rpc \in { "invite_1_claimer_wait_peer", "invite_1_greeter_wait_peer",
              "invite_2a_claimer_send_hashed_nonce", "invite_2a_greeter_get_hashed_nonce",
              "invite_2b_greeter_send_nonce",
              "invite_4_greeter_communicate", "invite_4_claimer_communicate" }

\* state= and payload= arguments of the step-th conduit_exchange of a request.
ExchangeState(r) == RpcSteps(r.rpc)[r.step].state
ExchangePayload(r) == IF RpcSteps(r.rpc)[r.step].from_msg THEN r.payload ELSE Empty

\* A slip in the except clauses: not_found and already_deleted exchanged.
ErrorStatusSwapped(err) ==
    CASE err = "InvitationNotFoundError" -> "already_deleted"
      [] err = "InvitationAlreadyDeletedError" -> "not_found"
      [] err = "InvitationInvalidStateError" -> "invalid_state"

\* A slip in the except clauses: InvitationInvalidStateError answered as not_found.
ErrorStatusMixedUp(err) ==
    CASE err = "InvitationNotFoundError" -> "not_found"
      [] err = "InvitationAlreadyDeletedError" -> "already_deleted"
      [] err = "InvitationInvalidStateError" -> "not_found"

\* A slip in the except clauses: InvitationAlreadyDeletedError answered as not_found.
ErrorStatusLost(err) ==
    CASE err = "InvitationNotFoundError" -> "not_found"
      [] err = "InvitationAlreadyDeletedError" -> "not_found"
      [] err = "InvitationInvalidStateError" -> "invalid_state"

\* except InvitationXxxError: return {"status": ...}
ErrorStatus(err) ==
    CASE err = "InvitationNotFoundError" -> "not_found"
      [] err = "InvitationAlreadyDeletedError" -> "already_deleted"
      [] err = "InvitationInvalidStateError" -> "invalid_state"

Request(rpc, payload) == [rpc |-> rpc, payload |-> payload, step |-> 1]
NoRequest == [rpc |-> None, payload |-> None, step |-> 0]

Reply(rpc, status, payload) == [rpc |-> rpc, status |-> status, payload |-> payload]
NoReply == Reply(None, None, None)

\* A slip in the handlers: the peer payload left out of the ok response.
OkReplyBare(rpc, peer_payload) == Reply(rpc, "ok", None)

\* rep_dump({"status": "ok", <field>: peer payload}) of a handler.
OkReply(rpc, peer_payload) ==
    Reply(rpc, "ok", IF RpcReturnsPayload(rpc) THEN peer_payload ELSE None)

(***************************************************************************)
(* The conduit slot (specification, section 3) and the conduit state       *)
(* store (section 4.B).                                                    *)
(***************************************************************************)
Slot(state, claimer_payload, greeter_payload, claimer_consumed, greeter_consumed) ==
    [ state |-> state,
      claimer_payload |-> claimer_payload, greeter_payload |-> greeter_payload,
      claimer_consumed |-> claimer_consumed, greeter_consumed |-> greeter_consumed ]

\* No slot is stored for the token.
NoSlot == Slot(None, None, None, FALSE, FALSE)

\* A slot at `state` with both payloads absent and both consumed flags false.
FreshSlot(state) == Slot(state, None, None, FALSE, FALSE)

load_or_init(s) == IF s = NoSlot THEN FreshSlot(STATE_1_WAIT_PEERS) ELSE s

OurPayload(s, greeter) == IF greeter THEN s.greeter_payload ELSE s.claimer_payload
PeerPayload(s, greeter) == IF greeter THEN s.claimer_payload ELSE s.greeter_payload

(***************************************************************************)
(* ConduitListenCtx.  organization_id and token are left out: the model    *)
(* has one token.                                                          *)
(***************************************************************************)
\* A slip in building the context: payload and peer_payload exchanged.
ConduitListenCtxSwapped(greeter, state, payload, peer_payload) ==
    [is_greeter |-> greeter, state |-> state, payload |-> peer_payload,
     peer_payload |-> payload]

ConduitListenCtx(greeter, state, payload, peer_payload) ==
    [is_greeter |-> greeter, state |-> state, payload |-> payload,
     peer_payload |-> peer_payload]

NoCtx == ConduitListenCtx(FALSE, None, None, None)

(***************************************************************************)
(* _conduit_talk on a loaded slot of a live invitation (section 4.D.1,     *)
(* steps 2 to 7): state reconciliation, deposit, and the listen context.   *)
(***************************************************************************)
\* Step 3: the caller is in step with the slot; anything else is a reset.
InSync(s, greeter, state, payload) ==
    /\ s.state = state
    /\ OurPayload(s, greeter) \in {None, payload}

\* A deposit that marks the peer payload consumed without looking for it.
DepositMarksConsumed(s, greeter, payload) ==
    IF greeter
    THEN [s EXCEPT !.greeter_payload = payload, !.greeter_consumed = TRUE]
    ELSE [s EXCEPT !.claimer_payload = payload, !.claimer_consumed = TRUE]

\* Step 4: deposit, and mark the peer payload consumed if it is there.
Deposit(s, greeter, payload) ==
    IF greeter
    THEN [s EXCEPT !.greeter_payload = payload,
                   !.greeter_consumed = IF s.claimer_payload # None THEN TRUE ELSE @]
    ELSE [s EXCEPT !.claimer_payload = payload,
                   !.claimer_consumed = IF s.greeter_payload # None THEN TRUE ELSE @]

ConduitTalk(s, greeter, state, payload) ==
    LET base == IF InSync(s, greeter, state, payload) THEN s ELSE FreshSlot(state)
    IN  [ slot |-> Deposit(base, greeter, payload),
          ctx |-> ConduitListenCtx(greeter, state, payload, PeerPayload(base, greeter)) ]

(***************************************************************************)
(* _conduit_listen on the loaded slot of a live invitation (section 4.D.2, *)
(* steps 2 to 7).  `raised` is the exception raised or None, `payload`      *)
(* the value returned, `updated` whether the slot was saved and            *)
(* conduit_updated published.                                              *)
(***************************************************************************)
ListenResult(s, raised, payload, updated) ==
    [slot |-> s, raised |-> raised, payload |-> payload, updated |-> updated]

\* Step 4: this side has observed the peer payload.
Consume(s, greeter) ==
    IF greeter THEN [s EXCEPT !.greeter_consumed = TRUE]
               ELSE [s EXCEPT !.claimer_consumed = TRUE]

\* Step 5: advance once both sides have consumed.
Advance(s) ==
    IF s.claimer_consumed /\ s.greeter_consumed
    THEN FreshSlot(NEXT_CONDUIT_STATE(s.state))
    ELSE s

\* A listen that saves and publishes conduit_updated although it found no peer payload.
ConduitListenAlwaysSaves(s, c) ==
    IF s.state # c.state \/ OurPayload(s, c.is_greeter) # c.payload
    THEN ListenResult(s, "InvitationInvalidStateError", None, FALSE)
    ELSE IF PeerPayload(s, c.is_greeter) = None
    THEN ListenResult(s, None, None, TRUE)
    ELSE ListenResult(Advance(Consume(s, c.is_greeter)), None,
                      PeerPayload(s, c.is_greeter), TRUE)

ConduitListen(s, c) ==
    IF s.state # c.state \/ OurPayload(s, c.is_greeter) # c.payload
    THEN ListenResult(s, "InvitationInvalidStateError", None, FALSE)
    ELSE IF PeerPayload(s, c.is_greeter) = None
    THEN ListenResult(s, None, None, FALSE)
    ELSE ListenResult(Advance(Consume(s, c.is_greeter)), None,
                      PeerPayload(s, c.is_greeter), TRUE)

(***************************************************************************)
(* Records and slots are kept per (organization_id, token).  The           *)
(* variables invitation and slot are those of Key; others holds those of   *)
(* the other keys: another token of the same organization, and the same    *)
(* token value in another organization.                                    *)
(***************************************************************************)
Org == "Org1"
Key == <<Org, Token>>
\* the token of another invitation
OtherToken == 0
OtherKeys == {<<Org, OtherToken>>, <<"Org2", Token>>}
Keys == {Key} \cup OtherKeys

InvitationOf(k) == IF k = Key THEN invitation ELSE others[k].invitation
SlotOf(k) == IF k = Key THEN slot ELSE others[k].slot

\* save(token, slot): the slot of k becomes s, every other slot stays
Store(k, s) ==
    IF k = Key
    THEN slot' = s /\ others' = others
    ELSE slot' = slot /\ others' = [others EXCEPT ![k].slot = s]

(***************************************************************************)
(* event_bus.waiter_on("invite.conduit_updated", filter): a connection is  *)
(* subscribed from the start of conduit_exchange to its end.  Publishing   *)
(* conduit_updated for a key sets the event of every subscribed waiter     *)
(* whose filter lets that key through.                                     *)
(***************************************************************************)
Subscribed(q) == pc[q] \in {"wait", "listen"}

\* A filter that lets the event through to the publishing exchange only.
ConduitUpdatedOwnOnly(w, also, key) ==
    [q \in Procs |-> IF q \in also THEN TRUE ELSE w[q]]

\* A filter that looks at neither organization_id nor token.
ConduitUpdatedAnyKey(w, also, key) ==
    [q \in Procs |-> IF Subscribed(q) \/ q \in also THEN TRUE ELSE w[q]]

\* The waiters after conduit_updated was published for `key`; `also` has just
\* subscribed.  _conduit_updated_filter: organization_id and token both equal.
ConduitUpdated(w, also, key) ==
    [q \in Procs |->
        IF (Subscribed(q) /\ filter_key[q][1] = key[1] /\ filter_key[q][2] = key[2])
              \/ q \in also
        THEN TRUE ELSE w[q]]

(***************************************************************************)
(* Request handlers.  pc[p] is "idle" (no request in flight), "talk"       *)
(* (conduit_exchange entered, waiter registered, _conduit_talk not yet     *)
(* run), "wait" (blocked in waiter.wait()) or "listen" (waiter cleared,    *)
(* _conduit_listen not yet run).                                           *)
(***************************************************************************)
\* A client sends a conduit RPC; its handler decodes it and enters conduit_exchange.
Begin(p, r) ==
    /\ pc[p] = "idle"
    /\ pc' = [pc EXCEPT ![p] = "talk"]
    /\ req' = [req EXCEPT ![p] = r]
    /\ UNCHANGED <<invitation, slot, ctx, waiter, reply, pos, script, del_rep>>
    /\ UNCHANGED store_vars
    /\ UNCHANGED key_vars
    /\ UNCHANGED rest_vars

\* The handler returns `rep`; `w` is the waiters' state when it leaves the exchange.
Return(p, rep, w) ==
    /\ pc' = [pc EXCEPT ![p] = "idle"]
    /\ req' = [req EXCEPT ![p] = NoRequest]
    /\ ctx' = [ctx EXCEPT ![p] = NoCtx]
    /\ waiter' = [w EXCEPT ![p] = FALSE]
    /\ reply' = [reply EXCEPT ![p] = rep]
    /\ pos' = [pos EXCEPT ![p] = @ + 1]

\* An exception of the engine reaches the handler's except clauses.
Raise(p, err, w) == Return(p, Reply(req[p].rpc, ErrorStatus(err), None), w)

\* Requests sent so far, answered or in flight.
Calls ==
    pos["g1"] + pos["g2"] + pos["c1"] + pos["c2"] + pos["b1"]
        + Cardinality({q \in Procs : pc[q] # "idle"})

\* A client of the free model sends any RPC of its side.
FreeCall(p) ==
    /\ Calls < MaxCalls
    /\ script[p] = << >>
    /\ \E rpc \in RpcsOf(p) :
         \E payload \in (IF RpcHasPayload(rpc) THEN PayloadValues ELSE {Empty}) :
            Begin(p, Request(rpc, payload))

\* A scripted client sends its next request once the previous one returned ok.
ScriptCall(p) ==
    /\ pos[p] < Len(script[p])
    /\ pos[p] > 0 => reply[p].status = "ok"
    /\ Begin(p, script[p][pos[p] + 1])

\* A talk that does not look at the record's status: it deposits on a DELETED one.
TalkOnDeleted(p) ==
    /\ pc[p] = "talk"
    /\ IF InvitationOf(filter_key[p]) = "ABSENT" \/ (is_greeter(p) /\ user_id(p) # Owner)
       THEN /\ Raise(p, "InvitationNotFoundError", waiter)
            /\ UNCHANGED <<slot, others>>
       ELSE LET t == ConduitTalk(load_or_init(SlotOf(filter_key[p])), is_greeter(p),
                                 ExchangeState(req[p]), ExchangePayload(req[p]))
            IN  /\ Store(filter_key[p], t.slot)
                /\ ctx' = [ctx EXCEPT ![p] = t.ctx]
                /\ waiter' = ConduitUpdated(waiter, {p}, filter_key[p])
                /\ pc' = [pc EXCEPT ![p] = "wait"]
                /\ UNCHANGED <<req, reply, pos>>
    /\ UNCHANGED <<invitation, script, del_rep, filter_key>>
    /\ UNCHANGED rest_vars
    /\ UNCHANGED store_vars

\* A conduit_exchange that registers its waiter after _conduit_talk: the event of
\* its own talk is not received.
TalkThenSubscribe(p) ==
    /\ pc[p] = "talk"
    /\ IF InvitationOf(filter_key[p]) = "ABSENT" \/ (is_greeter(p) /\ user_id(p) # Owner)
       THEN /\ Raise(p, "InvitationNotFoundError", waiter)
            /\ UNCHANGED <<slot, others>>
       ELSE IF InvitationOf(filter_key[p]) = "DELETED"
       THEN /\ Raise(p, "InvitationAlreadyDeletedError", waiter)
            /\ UNCHANGED <<slot, others>>
       ELSE LET t == ConduitTalk(load_or_init(SlotOf(filter_key[p])), is_greeter(p),
                                 ExchangeState(req[p]), ExchangePayload(req[p]))
            IN  /\ Store(filter_key[p], t.slot)
                /\ ctx' = [ctx EXCEPT ![p] = t.ctx]
                /\ waiter' = ConduitUpdated(waiter, {}, filter_key[p])
                /\ pc' = [pc EXCEPT ![p] = "wait"]
                /\ UNCHANGED <<req, reply, pos>>
    /\ UNCHANGED <<invitation, script, del_rep, filter_key>>
    /\ UNCHANGED rest_vars
    /\ UNCHANGED store_vars

\* listen_ctx = await self._conduit_talk(organization_id, greeter, token, state, payload)
Talk(p) ==
    /\ pc[p] = "talk"
    /\ IF InvitationOf(filter_key[p]) = "ABSENT" \/ (is_greeter(p) /\ user_id(p) # Owner)
       THEN /\ Raise(p, "InvitationNotFoundError", waiter)
            /\ UNCHANGED <<slot, others>>
       ELSE IF InvitationOf(filter_key[p]) = "DELETED"
       THEN /\ Raise(p, "InvitationAlreadyDeletedError", waiter)
            /\ UNCHANGED <<slot, others>>
       ELSE LET t == ConduitTalk(load_or_init(SlotOf(filter_key[p])), is_greeter(p),
                                 ExchangeState(req[p]), ExchangePayload(req[p]))
            IN  /\ Store(filter_key[p], t.slot)
                /\ ctx' = [ctx EXCEPT ![p] = t.ctx]
                /\ waiter' = ConduitUpdated(waiter, {p}, filter_key[p])
                /\ pc' = [pc EXCEPT ![p] = "wait"]
                /\ UNCHANGED <<req, reply, pos>>
    /\ UNCHANGED <<invitation, script, del_rep, filter_key>>
    /\ UNCHANGED rest_vars
    /\ UNCHANGED store_vars

\* await waiter.wait(); waiter.clear()
Wake(p) ==
    /\ pc[p] = "wait"
    /\ waiter[p]
    /\ waiter' = [waiter EXCEPT ![p] = FALSE]
    /\ pc' = [pc EXCEPT ![p] = "listen"]
    /\ UNCHANGED <<invitation, slot, req, ctx, reply, pos, script, del_rep>>
    /\ UNCHANGED store_vars
    /\ UNCHANGED key_vars
    /\ UNCHANGED rest_vars

\* A waiting loop that tests the truth of peer_payload (if peer_payload:) and so
\* takes b"" for None.
ListenTruthy(p) ==
    /\ pc[p] = "listen"
    /\ IF InvitationOf(filter_key[p]) = "DELETED"
       THEN /\ Raise(p, "InvitationAlreadyDeletedError", waiter)
            /\ UNCHANGED <<slot, others>>
       ELSE LET l == ConduitListen(SlotOf(filter_key[p]), ctx[p])
                w == IF l.updated THEN ConduitUpdated(waiter, {}, filter_key[p]) ELSE waiter
            IN  /\ Store(filter_key[p], l.slot)
                /\ IF l.raised # None
                   THEN Raise(p, l.raised, w)
                   ELSE IF l.payload \in {None, Empty}
                   THEN /\ pc' = [pc EXCEPT ![p] = "wait"]
                        /\ waiter' = w
                        /\ UNCHANGED <<req, ctx, reply, pos>>
                   ELSE IF req[p].step < Len(RpcSteps(req[p].rpc))
                   THEN /\ pc' = [pc EXCEPT ![p] = "talk"]
                        /\ req' = [req EXCEPT ![p].step = @ + 1]
                        /\ ctx' = [ctx EXCEPT ![p] = NoCtx]
                        /\ waiter' = [w EXCEPT ![p] = FALSE]
                        /\ UNCHANGED <<reply, pos>>
                   ELSE Return(p, OkReply(req[p].rpc, l.payload), w)
    /\ UNCHANGED <<invitation, script, del_rep, filter_key>>
    /\ UNCHANGED rest_vars
    /\ UNCHANGED store_vars

\* peer_payload = await self._conduit_listen(listen_ctx); return it unless None.
\* A handler that chains two exchanges enters the next conduit_exchange.
Listen(p) ==
    /\ pc[p] = "listen"
    /\ IF InvitationOf(filter_key[p]) = "DELETED"
       THEN /\ Raise(p, "InvitationAlreadyDeletedError", waiter)
            /\ UNCHANGED <<slot, others>>
       ELSE LET l == ConduitListen(SlotOf(filter_key[p]), ctx[p])
                w == IF l.updated THEN ConduitUpdated(waiter, {}, filter_key[p]) ELSE waiter
            IN  /\ Store(filter_key[p], l.slot)
                /\ IF l.raised # None
                   THEN Raise(p, l.raised, w)
                   ELSE IF l.payload = None
                   THEN /\ pc' = [pc EXCEPT ![p] = "wait"]
                        /\ waiter' = w
                        /\ UNCHANGED <<req, ctx, reply, pos>>
                   ELSE IF req[p].step < Len(RpcSteps(req[p].rpc))
                   THEN /\ pc' = [pc EXCEPT ![p] = "talk"]
                        /\ req' = [req EXCEPT ![p].step = @ + 1]
                        /\ ctx' = [ctx EXCEPT ![p] = NoCtx]
                        /\ waiter' = [w EXCEPT ![p] = FALSE]
                        /\ UNCHANGED <<reply, pos>>
                   ELSE Return(p, OkReply(req[p].rpc, l.payload), w)
    /\ UNCHANGED <<invitation, script, del_rep, filter_key>>
    /\ UNCHANGED rest_vars
    /\ UNCHANGED store_vars

\* InvitationDeletedReason
DeletedReasons == {"FINISHED", "CANCELLED", "ROTTEN"}

NoDeletion == [on |-> 0, reason |-> None]
Deletion(on, reason) == [on |-> on, reason |-> reason]

\* A tracker that discards on IDLE only: the token of a deleted invitation stays.
on_status_changed_idle_only(ready, token, status) ==
    IF status = "READY" THEN ready \cup {token}
    ELSE IF status = "IDLE" THEN ready \ {token}
    ELSE ready

\* _on_status_changed(event, organization_id, greeter, token, status)
on_status_changed(ready, token, status) ==
    IF status = "READY" THEN ready \cup {token} ELSE ready \ {token}

\* InvitationStatus
InvitationStatuses == {"IDLE", "READY", "DELETED"}

\* The organizations and tokens status_changed events may name.  claimers_ready
\* is the entry of Org in the dict _claimers_ready, ready_others holds the
\* entries of the other organizations (defaultdict(set): empty at first).
Orgs == {Org, "Org2"}
Tokens == {Token, OtherToken}
ReadyOf(org) == IF org = Org THEN claimers_ready ELSE ready_others[org]

\* No status_changed event yet, no claimer known; monitor_messages has run up to
\* its first await (line 34) with the backend offline and no message event yet.
RestInit ==
    /\ ready_others = [org \in Orgs \ {Org} |-> {}]
    /\ last_status = [k \in Orgs \X Tokens |-> None]
    /\ msg_arrived = FALSE
    /\ backend_online_event = FALSE
    /\ process_message_cancel_scope = None
    /\ mon_pc = "online_parked"
    /\ backend = "offline"
    /\ msg_index = 0
    /\ notified = {}

\* delete(organization_id, greeter, token, on, reason) (section 4.A delete,
\* section 4.B discard): NOT_FOUND if the record is absent or not the greeter's,
\* ALREADY_DELETED if it is DELETED; otherwise the record becomes DELETED with
\* deleted_on and deleted_reason, the slot is discarded and status_changed is
\* published with status DELETED.
delete(greeter, on, reason) ==
    IF invitation = "ABSENT" \/ greeter # Owner
    THEN [raised |-> "InvitationNotFoundError", invitation |-> invitation,
          deleted |-> deleted, slot |-> slot, ready |-> claimers_ready]
    ELSE IF invitation = "DELETED"
    THEN [raised |-> "InvitationAlreadyDeletedError", invitation |-> invitation,
          deleted |-> deleted, slot |-> slot, ready |-> claimers_ready]
    ELSE [raised |-> None, invitation |-> "DELETED",
          deleted |-> Deletion(on, reason), slot |-> NoSlot,
          ready |-> on_status_changed(claimers_ready, Token, "DELETED")]

\* A slip in the except clauses: InvitationNotFoundError answered as already_deleted.
DeleteStatusHidden(raised) ==
    CASE raised = "InvitationNotFoundError" -> "already_deleted"
      [] raised = "InvitationAlreadyDeletedError" -> "already_deleted"
      [] OTHER -> "ok"

\* A slip in the except clauses: InvitationAlreadyDeletedError answered as ok.
DeleteStatusLenient(raised) ==
    CASE raised = "InvitationNotFoundError" -> "not_found"
      [] raised = "InvitationAlreadyDeletedError" -> "ok"
      [] OTHER -> "ok"

\* api_invite_delete: the status of the response
DeleteStatus(raised) ==
    CASE raised = "InvitationNotFoundError" -> "not_found"
      [] raised = "InvitationAlreadyDeletedError" -> "already_deleted"
      [] OTHER -> "ok"

\* A delete that marks the record DELETED and leaves its conduit slot in the store.
DeleteKeepsSlot ==
    /\ \E on \in {1}, reason \in {"CANCELLED"} :
         LET d == delete(Owner, on, reason)
         IN  /\ del_rep' = DeleteStatus(d.raised)
             /\ invitation' = d.invitation
             /\ deleted' = d.deleted
             /\ slot' = slot
             /\ claimers_ready' = d.ready
    /\ UNCHANGED <<pc, req, ctx, waiter, reply, pos, script, invitations, joined, adm_log>>
    /\ UNCHANGED key_vars
    /\ UNCHANGED rest_vars

\* The greeter cancels the invitation (invite_delete with reason CANCELLED) on a
\* connection of its own.  status_changed is published, which no conduit_updated
\* waiter is subscribed to.
Delete ==
    /\ \E on \in {1}, reason \in {"CANCELLED"} :
         LET d == delete(Owner, on, reason)
         IN  /\ del_rep' = DeleteStatus(d.raised)
             /\ invitation' = d.invitation
             /\ deleted' = d.deleted
             /\ slot' = d.slot
             /\ claimers_ready' = d.ready
    /\ UNCHANGED <<pc, req, ctx, waiter, reply, pos, script, invitations, joined, adm_log>>
    /\ UNCHANGED key_vars
    /\ UNCHANGED rest_vars


(***************************************************************************)
(* The administrative RPCs.  Each handler runs to its response without     *)
(* waiting for a peer; adm_log keeps the responses in the order they were  *)
(* given (at most MaxAdmin of them).                                       *)
(***************************************************************************)
Profiles == {"ADMIN", "STANDARD", "OUTSIDER"}
InvitationTypes == {"USER", "DEVICE"}

\* Tokens that uuid4() may give to the invitations created by invite_new
NewTokens == 2..(MaxNew + 1)

Authenticated == Greeters \cup Others

AdmReply(cmd, conn, status, arg, data) ==
    [cmd |-> cmd, conn |-> conn, status |-> status, arg |-> arg, data |-> data]

Logged(entry) ==
    /\ Len(adm_log) < MaxAdmin
    /\ adm_log' = Append(adm_log, entry)

\* msg["type"], client_ctx.profile and msg["send_email"] of an invite_new request
NewArgs(type, profile, send_email) ==
    [type |-> type, profile |-> profile, send_email |-> send_email]

\* A slip in api_invite_new: send_email looked at before the profile.
invite_new_status_email_first(type, profile, send_email) ==
    IF type = "USER"
    THEN IF send_email THEN "not_implemented"
         ELSE IF profile # "ADMIN" THEN "not_allowed"
         ELSE "ok"
    ELSE "ok"

\* api_invite_new: the status of the response
invite_new_status(type, profile, send_email) ==
    IF type = "USER"
    THEN IF profile # "ADMIN" THEN "not_allowed"
         ELSE IF send_email THEN "not_implemented"
         ELSE "ok"
    ELSE "ok"

\* new_for_user / new_for_device (section 4.A create): a record with a fresh
\* token and status IDLE.
create(type, greeter, token) ==
    [token |-> token, type |-> type, greeter_user_id |-> greeter]

api_invite_new(p, type, profile, send_email) ==
    /\ LET status == invite_new_status(type, profile, send_email)
       IN  IF status = "ok"
           THEN \E token \in NewTokens \ {r.token : r \in invitations} :
                  /\ invitations' = invitations \cup {create(type, user_id(p), token)}
                  /\ Logged(AdmReply("invite_new", p, "ok",
                                   NewArgs(type, profile, send_email), {token}))
           ELSE /\ invitations' = invitations
                /\ Logged(AdmReply("invite_new", p, status,
                                 NewArgs(type, profile, send_email), {}))
    /\ UNCHANGED conduit_vars
    /\ UNCHANGED <<deleted, claimers_ready, joined>>
    /\ UNCHANGED key_vars
    /\ UNCHANGED rest_vars

\* A slip in api_invite_delete: greeter=None passed to delete instead of the caller.
api_invite_delete_no_greeter(p, on, reason) ==
    /\ LET d == delete(None, on, reason)
       IN  /\ invitation' = d.invitation
           /\ deleted' = d.deleted
           /\ slot' = d.slot
           /\ claimers_ready' = d.ready
           /\ Logged(AdmReply("invite_delete", p, DeleteStatus(d.raised),
                              Deletion(on, reason), {}))
    /\ UNCHANGED <<pc, req, ctx, waiter, reply, pos, script, del_rep>>
    /\ UNCHANGED <<invitations, joined>>
    /\ UNCHANGED key_vars
    /\ UNCHANGED rest_vars

api_invite_delete(p, on, reason) ==
    /\ LET d == delete(user_id(p), on, reason)
       IN  /\ invitation' = d.invitation
           /\ deleted' = d.deleted
           /\ slot' = d.slot
           /\ claimers_ready' = d.ready
           /\ Logged(AdmReply("invite_delete", p, DeleteStatus(d.raised),
                              Deletion(on, reason), {}))
    /\ UNCHANGED <<pc, req, ctx, waiter, reply, pos, script, del_rep>>
    /\ UNCHANGED <<invitations, joined>>
    /\ UNCHANGED key_vars
    /\ UNCHANGED rest_vars

\* A store that keeps returning the records it has marked DELETED.
list_with_deleted(greeter) ==
    LET records ==
          (IF invitation # "ABSENT" /\ Owner = greeter
           THEN {[token |-> Token, type |-> TokenType]} ELSE {})
          \cup {[token |-> r.token, type |-> r.type] :
                   r \in {i \in invitations : i.greeter_user_id = greeter}}
    IN  {[token |-> r.token, type |-> r.type,
          status |-> IF r.token \in claimers_ready THEN "READY" ELSE "IDLE"] :
             r \in records}

\* list(organization_id, greeter) (sections 4.A list and 4.F): the greeter's
\* records that are not deleted, READY when the claimer is present.
list(greeter) ==
    LET records ==
          (IF invitation = "IDLE" /\ Owner = greeter
           THEN {[token |-> Token, type |-> TokenType]} ELSE {})
          \cup {[token |-> r.token, type |-> r.type] :
                   r \in {i \in invitations : i.greeter_user_id = greeter}}
    IN  {[token |-> r.token, type |-> r.type,
          status |-> IF r.token \in claimers_ready THEN "READY" ELSE "IDLE"] :
             r \in records}

api_invite_list(p) ==
    /\ Logged(AdmReply("invite_list", p, "ok", NoDeletion, list(user_id(p))))
    /\ UNCHANGED conduit_vars
    /\ UNCHANGED <<deleted, claimers_ready, invitations, joined>>
    /\ UNCHANGED key_vars
    /\ UNCHANGED rest_vars

\* api_invite_info answers from client_ctx.invitation, the record fetched during
\* the handshake of the claimer's connection.
api_invite_info(c) ==
    /\ c \in joined
    /\ Logged(AdmReply("invite_info", c, "ok", NoDeletion,
                       {[type |-> TokenType, greeter_user_id |-> Owner]}))
    /\ UNCHANGED conduit_vars
    /\ UNCHANGED <<deleted, claimers_ready, invitations, joined>>
    /\ UNCHANGED key_vars
    /\ UNCHANGED rest_vars

\* claimer_joined: a claimer connection is established (its handshake fetched the
\* record); status_changed is published with status READY.
claimer_joined(c) ==
    /\ c \notin joined
    /\ invitation # "ABSENT"
    /\ joined' = joined \cup {c}
    /\ claimers_ready' = on_status_changed(claimers_ready, Token, "READY")
    /\ UNCHANGED conduit_vars
    /\ UNCHANGED <<deleted, invitations, adm_log>>
    /\ UNCHANGED key_vars
    /\ UNCHANGED rest_vars

\* A tracker that counts connections: the token leaves the ready set with the
\* claimer's last connection only.
claimer_left_last_only(c) ==
    /\ c \in joined
    /\ joined' = joined \ {c}
    /\ claimers_ready' = IF joined \ {c} = {}
                         THEN on_status_changed(claimers_ready, Token, "IDLE")
                         ELSE claimers_ready
    /\ UNCHANGED conduit_vars
    /\ UNCHANGED <<deleted, invitations, adm_log>>
    /\ UNCHANGED key_vars
    /\ UNCHANGED rest_vars

\* claimer_left: the connection closes; status_changed is published with status IDLE.
claimer_left(c) ==
    /\ c \in joined
    /\ joined' = joined \ {c}
    /\ claimers_ready' = on_status_changed(claimers_ready, Token, "IDLE")
    /\ UNCHANGED conduit_vars
    /\ UNCHANGED <<deleted, invitations, adm_log>>
    /\ UNCHANGED key_vars
    /\ UNCHANGED rest_vars

\* A cancellation that takes the caller's deposit back out of the slot.
CancelRollsBack(p) ==
    /\ pc[p] # "idle"
    /\ Return(p, Reply(req[p].rpc, "cancelled", None), waiter)
    /\ slot' = IF slot = NoSlot THEN slot
               ELSE IF is_greeter(p) THEN [slot EXCEPT !.greeter_payload = None]
               ELSE [slot EXCEPT !.claimer_payload = None]
    /\ UNCHANGED <<invitation, script, del_rep>>
    /\ UNCHANGED store_vars
    /\ UNCHANGED key_vars
    /\ UNCHANGED rest_vars

\* The client connection closes: trio cancels the handler at its suspension point.
\* Nothing is rolled back and no response is sent.
Cancel(p) ==
    /\ pc[p] # "idle"
    /\ Return(p, Reply(req[p].rpc, "cancelled", None), waiter)
    /\ UNCHANGED <<invitation, slot, script, del_rep>>
    /\ UNCHANGED store_vars
    /\ UNCHANGED key_vars
    /\ UNCHANGED rest_vars

(***************************************************************************)
(* The free model: a fresh invitation, and the connections g1, c1 and c2   *)
(* (a second connection of the claimer) sending any of their RPCs.         *)
(***************************************************************************)
Idle ==
    /\ invitation = "IDLE"
    /\ slot = NoSlot
    /\ pc = [p \in Procs |-> "idle"]
    /\ req = [p \in Procs |-> NoRequest]
    /\ ctx = [p \in Procs |-> NoCtx]
    /\ waiter = [p \in Procs |-> FALSE]
    /\ reply = [p \in Procs |-> NoReply]
    /\ pos = [p \in Procs |-> 0]
    /\ del_rep = None
    /\ deleted = NoDeletion
    /\ claimers_ready = {}
    /\ invitations = {}
    /\ joined = {}
    /\ adm_log = << >>
    /\ others = [k \in OtherKeys |-> [invitation |-> "IDLE", slot |-> NoSlot]]
    /\ filter_key = [p \in Procs |-> Key]
    /\ RestInit

Init ==
    /\ Idle
    /\ script = [p \in Procs |-> << >>]

FreeProcs == {"g1", "c1", "c2"}

Engine == \E p \in Procs : Talk(p) \/ Wake(p) \/ Listen(p)

Next ==
    \/ \E p \in FreeProcs : FreeCall(p)
    \/ Engine
    \/ Delete

Spec == Init /\ [][Next]_vars

(***************************************************************************)
(* The happy path (test_good_device_claim, test_good_user_claim): the      *)
(* greeter g1 and the claimer c1 each send their six RPCs in order, each   *)
(* starting a request once the previous one returned ok, and go on with    *)
(* further communicate rounds (Rounds in all).  The communicate payloads   *)
(* are any byte strings of PayloadValues.                                  *)
(***************************************************************************)
Tuples(n) == [1..n -> PayloadValues]

GreeterScript(comm) ==
    << Request("invite_1_greeter_wait_peer", "gk"),
       Request("invite_2a_greeter_get_hashed_nonce", Empty),
       Request("invite_2b_greeter_send_nonce", "gn"),
       Request("invite_3a_greeter_wait_peer_trust", Empty),
       Request("invite_3b_greeter_signify_trust", Empty) >>
    \o [i \in 1..Len(comm) |-> Request("invite_4_greeter_communicate", comm[i])]

ClaimerScript(comm) ==
    << Request("invite_1_claimer_wait_peer", "ck"),
       Request("invite_2a_claimer_send_hashed_nonce", "ch"),
       Request("invite_2b_claimer_send_nonce", "cn"),
       Request("invite_3a_claimer_signify_trust", Empty),
       Request("invite_3b_claimer_wait_peer_trust", Empty) >>
    \o [i \in 1..Len(comm) |-> Request("invite_4_claimer_communicate", comm[i])]

InitHappy ==
    /\ Idle
    /\ \E gc \in Tuples(Rounds), cc \in Tuples(Rounds) :
         script = [p \in Procs |->
                     CASE p = "g1" -> GreeterScript(gc)
                       [] p = "c1" -> ClaimerScript(cc)
                       [] OTHER -> << >>]

Scripted == \E p \in Procs : ScriptCall(p)

NextScripted == Scripted \/ Engine

\* Every request handler that can run does run, and a scripted client does send
\* its next request (the trio scheduler runs every runnable task).
EngineFairness ==
    \A p \in Procs : WF_vars(Talk(p)) /\ WF_vars(Wake(p)) /\ WF_vars(Listen(p))

Fairness == EngineFairness /\ \A p \in Procs : WF_vars(ScriptCall(p))

SpecHappy == InitHappy /\ [][NextScripted]_vars /\ Fairness

Peer(p) == IF p = "g1" THEN "c1" ELSE "g1"
Pair == {"g1", "c1"}

(***************************************************************************)
(* Exchanges of conduit_exchange a connection has completed: those of its  *)
(* answered requests and those already done in the request in flight.      *)
(***************************************************************************)
RECURSIVE StepsOf(_, _)
StepsOf(sc, n) == IF n = 0 THEN 0 ELSE Len(RpcSteps(sc[n].rpc)) + StepsOf(sc, n - 1)

Exchanged(p) ==
    IF reply[p].status \notin {None, "ok"}
    THEN StepsOf(script[p], pos[p] - 1)
    ELSE StepsOf(script[p], pos[p]) + (IF pc[p] = "idle" THEN 0 ELSE req[p].step - 1)

\* The state of the n-th exchange of the happy path (state 4 repeats).
HappyState(n) == IF n < Len(ConduitState) THEN ConduitState[n] ELSE STATE_4_COMMUNICATE

\* _conduit_talk of p runs in this step (and does not raise).
Talks(p) == pc[p] = "talk" /\ pc'[p] = "wait"

----------------------------------------------------------------------------
(* C1: when greeter and claimer each run conduit_exchange at               *)
(* STATE_1_WAIT_PEERS on a live invitation and nothing else has been       *)
(* called, each call that has returned returned ok with exactly the        *)
(* payload the other side deposited (never invalid_state).                 *)
OnlyWaitPeer == \A p \in Pair : pos[p] = 0 \/ (pos[p] = 1 /\ pc[p] = "idle")

C1_KeyExchangeSymmetric ==
    OnlyWaitPeer =>
        \A p \in Pair :
            pos[p] = 1 =>
                reply[p] = Reply(script[p][1].rpc, "ok", script[Peer(p)][1].payload)

(* C2: once a side's exchange at S returned ok, its talk at NEXT(S) is     *)
(* legal: it does not move the slot to another state nor erase the peer's  *)
(* deposit; and once both sides' exchanges at S returned ok (and neither   *)
(* has talked again) the slot is at NEXT(S), both payloads absent, both    *)
(* consumed flags false.                                                   *)
TalkKeepsSlot(p) ==
    (Talks(p) /\ slot # NoSlot) =>
        /\ slot'.state = slot.state
        /\ PeerPayload(slot', is_greeter(p)) = PeerPayload(slot, is_greeter(p))

BothReturned(n) ==
    \A p \in Pair : Exchanged(p) = n /\ pc[p] \in {"idle", "talk"}

C2_NextCallLegal ==
    /\ [][\A p \in Pair : TalkKeepsSlot(p)]_vars
    /\ [](\A n \in 1..(Len(ConduitState) + Rounds) :
            BothReturned(n) => slot = FreshSlot(NEXT_CONDUIT_STATE(HappyState(n))))

(* C3: on the happy path, under every fair interleaving, every RPC of both *)
(* sides eventually returns ok and the slot passes through all seven       *)
(* states to STATE_4_COMMUNICATE.                                          *)
HappyDone ==
    /\ \A p \in Pair : pos[p] = Len(script[p]) /\ reply[p].status = "ok"
    /\ slot.state = STATE_4_COMMUNICATE

C3_HappyPathCompletes ==
    /\ <>HappyDone
    /\ \A st \in ConduitStates : <>(slot.state = st)

(* C4: in every round at STATE_4_COMMUNICATE an exchange that returns ok   *)
(* returns the payload the peer deposited for that same round.             *)
InCommunicate(p) == pos[p] > 5 /\ reply[p].rpc \in
    {"invite_4_greeter_communicate", "invite_4_claimer_communicate"}

C4_CommunicateSameRound ==
    \A p \in Pair :
        (InCommunicate(p) /\ reply[p].status = "ok") =>
            reply[p].payload = script[Peer(p)][pos[p]].payload

(* C5: after the slot reached STATE_4_COMMUNICATE, successive communicate  *)
(* exchanges all return ok under every interleaving, and between rounds    *)
(* the slot is at STATE_4_COMMUNICATE with payloads and flags cleared.     *)
BetweenRounds ==
    /\ \A p \in Pair : pos[p] >= 5 /\ pc[p] = "idle"
    /\ pos["g1"] = pos["c1"]

C5_CommunicateRepeats ==
    /\ \A p \in Pair : InCommunicate(p) => reply[p].status = "ok"
    /\ BetweenRounds => slot = FreshSlot(STATE_4_COMMUNICATE)

----------------------------------------------------------------------------
(***************************************************************************)
(* Duplicate deposit: two connections of the same side send the same RPC   *)
(* with different payloads while one connection of the other side sends    *)
(* its RPC for the same state; every connection sends that one request.    *)
(***************************************************************************)
\* <<RPC of the duplicated side, RPC of the peer>>, both starting at the same state.
DupRpcs ==
    { <<"invite_1_claimer_wait_peer", "invite_1_greeter_wait_peer">>,
      <<"invite_1_greeter_wait_peer", "invite_1_claimer_wait_peer">>,
      <<"invite_2a_claimer_send_hashed_nonce", "invite_2a_greeter_get_hashed_nonce">>,
      <<"invite_4_claimer_communicate", "invite_4_greeter_communicate">>,
      <<"invite_4_greeter_communicate", "invite_4_claimer_communicate">> }

InitDup ==
    /\ Idle
    /\ \E rr \in DupRpcs, x \in PayloadValues, y \in PayloadValues :
         /\ x # y
         /\ \E z \in (IF RpcHasPayload(rr[2]) THEN PayloadValues ELSE {Empty}) :
              script =
                IF rr[1] \in ClaimerRpcs
                THEN [p \in Procs |->
                        CASE p = "c1" -> << Request(rr[1], x) >>
                          [] p = "c2" -> << Request(rr[1], y) >>
                          [] p = "g1" -> << Request(rr[2], z) >>
                          [] OTHER -> << >>]
                ELSE [p \in Procs |->
                        CASE p = "g1" -> << Request(rr[1], x) >>
                          [] p = "g2" -> << Request(rr[1], y) >>
                          [] p = "c1" -> << Request(rr[2], z) >>
                          [] OTHER -> << >>]

SpecDup == InitDup /\ [][NextScripted]_vars /\ Fairness

\* _conduit_talk of p deposits, for the slot's current state, a payload that
\* differs from the one its side has already deposited.
DupDeposit(p) ==
    /\ Talks(p)
    /\ slot.state = ExchangeState(req[p])
    /\ OurPayload(slot, is_greeter(p)) \notin {None, ExchangePayload(req[p])}

\* q is inside an exchange and its deposit is in the slot.
Deposited(q) ==
    /\ Subscribed(q)
    /\ slot.state = ctx[q].state
    /\ OurPayload(slot, is_greeter(q)) = ctx[q].payload

\* q is inside an exchange whose deposit is no longer in the slot.
Wiped(q) == Subscribed(q) /\ ~Deposited(q)

\* _conduit_listen of q runs in this step.
Listens(q) == pc[q] = "listen" /\ pc'[q] # "listen"

(* C6: when a second caller of a side deposits a different payload for the *)
(* same state, the conduit is reset (slot at that state, holding only the  *)
(* second payload, both consumed flags false), the peer that had deposited *)
(* for that state is woken, and its next listen returns invalid_state.     *)
C6_DuplicateDepositResets ==
    [][\A p \in Procs :
        /\ DupDeposit(p) =>
             /\ slot' = Deposit(FreshSlot(slot.state), is_greeter(p), ExchangePayload(req[p]))
             /\ slot'.state = slot.state
             /\ PeerPayload(slot', is_greeter(p)) = None
             /\ ~slot'.claimer_consumed /\ ~slot'.greeter_consumed
             /\ \A q \in Procs :
                  (is_greeter(q) # is_greeter(p) /\ Deposited(q)) =>
                      Wiped(q)' /\ (pc'[q] = "wait" => waiter'[q])
        /\ (Wiped(p) /\ ~Listens(p)) => Wiped(p)'
        /\ (Wiped(p) /\ Listens(p)) =>
             /\ pc'[p] = "idle"
             /\ reply'[p] = Reply(req[p].rpc, "invalid_state", None)
      ]_vars

C6_Witness ==
    \E q \in Procs, p1 \in Procs, p2 \in Procs :
        /\ p1 # p2
        /\ is_greeter(p1) = is_greeter(p2)
        /\ is_greeter(q) # is_greeter(p1)
        /\ reply[q].status = "invalid_state"
        /\ Subscribed(p1) /\ Subscribed(p2)
        /\ ctx[p1].state = slot.state /\ ctx[p2].state = slot.state
        /\ ctx[p1].payload # ctx[p2].payload
        /\ OurPayload(slot, is_greeter(p2)) = ctx[p2].payload
        /\ PeerPayload(slot, is_greeter(p2)) = None

----------------------------------------------------------------------------
(***************************************************************************)
(* Peer reset (test_claimer_handle_reset): greeter and claimer run state 1,*)
(* then one side sends its state-1 RPC again while the other sends its     *)
(* state-2 RPC.                                                            *)
(***************************************************************************)
WaitPeerRpcs == {"invite_1_claimer_wait_peer", "invite_1_greeter_wait_peer"}

InitReset ==
    /\ Idle
    /\ \E k \in {"gk", "ck", "k2"} :
         \/ script = [p \in Procs |->
                CASE p = "c1" -> << Request("invite_1_claimer_wait_peer", "ck"),
                                    Request("invite_1_claimer_wait_peer", k) >>
                  [] p = "g1" -> << Request("invite_1_greeter_wait_peer", "gk"),
                                    Request("invite_2a_greeter_get_hashed_nonce", Empty) >>
                  [] OTHER -> << >>]
         \/ script = [p \in Procs |->
                CASE p = "g1" -> << Request("invite_1_greeter_wait_peer", "gk"),
                                    Request("invite_1_greeter_wait_peer", k) >>
                  [] p = "c1" -> << Request("invite_1_claimer_wait_peer", "ck"),
                                    Request("invite_2a_claimer_send_hashed_nonce", "ch") >>
                  [] OTHER -> << >>]

\* Both state-1 exchanges have returned ok.
WaitPeerDone ==
    \A p \in Pair : pos[p] >= 1 /\ (pos[p] = 1 => reply[p].status = "ok")

\* The second requests are sent once both state-1 requests have returned.
ResetCall(p) ==
    /\ pos[p] >= 1 => WaitPeerDone
    /\ ScriptCall(p)

NextReset == (\E p \in Procs : ResetCall(p)) \/ Engine

SpecReset ==
    InitReset /\ [][NextReset]_vars /\ EngineFairness
        /\ \A p \in Procs : WF_vars(ResetCall(p))

\* The side that restarts the conduit, and the side that goes on to state 2.
Restarter == CHOOSE p \in Pair : script[p][2].rpc \in WaitPeerRpcs
Continuer == Peer(Restarter)

(* C7: after both completed state 1, when one side restarts state 1 while  *)
(* the other sends its state-2 RPC, the state-2 RPC eventually fails with  *)
(* invalid_state (it neither returns ok nor blocks), and the restarting    *)
(* side's state-1 RPC is not the one that fails.                           *)
C7_PeerResetDetected ==
    /\ [](WaitPeerDone =>
            <>(pos[Continuer] = 2 /\ reply[Continuer].status = "invalid_state"))
    /\ [](pos[Restarter] = 2 => reply[Restarter].status # "invalid_state")

----------------------------------------------------------------------------
(***************************************************************************)
(* Recovery: earlier connections g2 and c2 of the two sides send any RPCs  *)
(* (and may be closed while a request is in flight); once none of their    *)
(* requests is in flight, g1 and c1 each send their state-1 RPC and        *)
(* nothing else.                                                           *)
(***************************************************************************)
Earlier == {"g2", "c2"}

InitRecover ==
    /\ Idle
    /\ script = [p \in Procs |->
                   CASE p = "g1" -> << Request("invite_1_greeter_wait_peer", "gk") >>
                     [] p = "c1" -> << Request("invite_1_claimer_wait_peer", "ck") >>
                     [] OTHER -> << >>]

NotRecovering == \A p \in Pair : pos[p] = 0 /\ pc[p] = "idle"

EarlierCall(p) == NotRecovering /\ FreeCall(p)

RecoverCall(p) ==
    /\ \A q \in Earlier : pc[q] = "idle"
    /\ ScriptCall(p)

NextRecover ==
    \/ \E p \in Earlier : EarlierCall(p) \/ Cancel(p)
    \/ \E p \in Pair : RecoverCall(p)
    \/ Engine

SpecRecover == InitRecover /\ [][NextRecover]_vars

(* C8: from every reachable slot state of a live invitation, if both sides *)
(* then call their state-1 exchange and nothing else, both exchanges       *)
(* return ok with each other's payload and the slot reaches                *)
(* STATE_2_1_CLAIMER_HASHED_NONCE.                                         *)
C8_RecoveryByWaitPeer ==
    /\ \A p \in Pair :
          pos[p] = 1 =>
              reply[p] = Reply(script[p][1].rpc, "ok", script[Peer(p)][1].payload)
    /\ (\A p \in Pair : pos[p] = 1) =>
          slot = FreshSlot(STATE_2_1_CLAIMER_HASHED_NONCE)

----------------------------------------------------------------------------
----------------------------------------------------------------------------
(***************************************************************************)
(* Delete while an exchange is pending: g1 and c1 each send at most one    *)
(* RPC, and the invitation is deleted at any moment.                       *)
(***************************************************************************)
OneRequest(p) ==
    { << >> } \cup
    { << Request(rpc, payload) >> :
         rpc \in RpcsOf(p), payload \in PayloadValues \cup {Empty} }

InitDelete ==
    /\ Idle
    /\ \E gs \in OneRequest("g1"), cs \in OneRequest("c1") :
         /\ \A i \in 1..Len(gs) : RpcHasPayload(gs[i].rpc) <=> gs[i].payload # Empty
         /\ \A i \in 1..Len(cs) : RpcHasPayload(cs[i].rpc) <=> cs[i].payload # Empty
         /\ script = [p \in Procs |->
                        CASE p = "g1" -> gs [] p = "c1" -> cs [] OTHER -> << >>]

NextDelete == Scripted \/ Engine \/ Delete

SpecDelete == InitDelete /\ [][NextDelete]_vars /\ Fairness

(* C10: an exchange that is pending (it has talked and waits for           *)
(* conduit_updated) when the invitation is deleted is woken and eventually *)
(* fails with already_deleted, whatever the other party does.              *)
C10_DeleteWakesWaiter ==
    \A p \in Pair :
        (invitation = "DELETED" /\ Subscribed(p))
            ~> (pc[p] = "idle" /\ reply[p].status = "already_deleted")

----------------------------------------------------------------------------
(***************************************************************************)
(* The invitation store: the token's record exists (created by its greeter *)
(* alice) or is absent; the authenticated connections g1, g2 (alice) and   *)
(* b1 (bob) send administrative RPCs, claimer connections come and go.     *)
(***************************************************************************)
\* The slot an existing record may have: none yet, or the one left by a greeter
\* whose state-1 exchange deposited its key and was cancelled.
LeftSlot ==
    ConduitTalk(FreshSlot(STATE_1_WAIT_PEERS), TRUE, STATE_1_WAIT_PEERS, "x").slot

InitStore ==
    /\ invitation \in {"ABSENT", "IDLE"}
    /\ slot \in (IF invitation = "IDLE" THEN {NoSlot, LeftSlot} ELSE {NoSlot})
    /\ pc = [p \in Procs |-> "idle"]
    /\ req = [p \in Procs |-> NoRequest]
    /\ ctx = [p \in Procs |-> NoCtx]
    /\ waiter = [p \in Procs |-> FALSE]
    /\ reply = [p \in Procs |-> NoReply]
    /\ pos = [p \in Procs |-> 0]
    /\ script = [p \in Procs |-> << >>]
    /\ del_rep = None
    /\ deleted = NoDeletion
    /\ claimers_ready = {}
    /\ invitations = {}
    /\ joined = {}
    /\ adm_log = << >>
    /\ others = [k \in OtherKeys |-> [invitation |-> "IDLE", slot |-> NoSlot]]
    /\ filter_key = [p \in Procs |-> Key]
    /\ RestInit

\* The (on, reason) arguments the deletes are drawn from: on is pendulum_now()
DeleteArgs == {Deletion(1, "FINISHED"), Deletion(2, "CANCELLED"), Deletion(2, "ROTTEN")}

Admin ==
    \/ \E p \in Authenticated, d \in DeleteArgs : api_invite_delete(p, d.on, d.reason)
    \/ \E p \in {"g1", "b1"} : api_invite_list(p)
    \/ \E c \in Claimers : api_invite_info(c)

Presence == \E c \in Claimers : claimer_joined(c) \/ claimer_left(c)

NextStore == Admin \/ Presence

SpecStore == InitStore /\ [][NextStore]_vars

\* The administrative request answered by this step, if any
Answered(cmd) ==
    /\ Len(adm_log') = Len(adm_log) + 1
    /\ adm_log'[Len(adm_log')].cmd = cmd

LastReply == adm_log'[Len(adm_log')]

OwnerDeletes ==
    {i \in 1..Len(adm_log) :
        adm_log[i].cmd = "invite_delete" /\ user_id(adm_log[i].conn) = Owner}

(* C11: of the invite_delete calls the owning greeter made on an existing  *)
(* token, exactly one returned ok (the first) and every other returned     *)
(* already_deleted; deleted_on and deleted_reason of the record are those  *)
(* of the call that returned ok, whatever deletes came later.              *)
C11_ExactlyOneDeleteOk ==
    (invitation # "ABSENT" /\ OwnerDeletes # {}) =>
        /\ Cardinality({i \in OwnerDeletes : adm_log[i].status = "ok"}) = 1
        /\ \A i \in OwnerDeletes :
              /\ adm_log[i].status \in {"ok", "already_deleted"}
              /\ adm_log[i].status = "ok" =>
                    /\ deleted = adm_log[i].arg
                    /\ \A j \in OwnerDeletes : i <= j
        /\ invitation = "DELETED"

\* Three deletes by the greeter, from both of its connections and with
\* different reasons; the record keeps the first one's.
C11_Witness ==
    /\ Len(adm_log) = 3
    /\ OwnerDeletes = {1, 2, 3}
    /\ {adm_log[i].conn : i \in OwnerDeletes} = Greeters
    /\ adm_log[1].arg # adm_log[2].arg
    /\ adm_log[1].arg # adm_log[3].arg
    /\ deleted = adm_log[1].arg

----------------------------------------------------------------------------
(***************************************************************************)
(* Lookup: the token's record exists or is absent; the greeter g1, the     *)
(* claimer c1 and another authenticated user b1 send conduit RPCs for the  *)
(* token, the greeter may cancel the invitation, and the claimer's         *)
(* connection is announced and closed.  A claimer connection exists only   *)
(* for a record its handshake has fetched.                                 *)
(***************************************************************************)
LookupProcs == {"g1", "c1", "b1"}

LookupCall(p) ==
    /\ p \in Claimers => invitation # "ABSENT"
    /\ FreeCall(p)

NextLookup ==
    \/ \E p \in LookupProcs : LookupCall(p)
    \/ Engine
    \/ Delete
    \/ claimer_joined("c1") \/ claimer_left("c1")

InitLookup == InitStore /\ slot = NoSlot

SpecLookup == InitLookup /\ [][NextLookup]_vars

\* The conduit handler of p returns its response in this step
Replies(p) == pc[p] # "idle" /\ pc'[p] = "idle"

(* C12: once the record is DELETED it stays DELETED whatever runs (delete, *)
(* claimer_joined, claimer_left, the steps of the conduit RPCs), and no    *)
(* conduit RPC answered from then on returns ok.                           *)
C12_DeletedIsTerminal ==
    [][invitation = "DELETED" =>
         /\ invitation' = "DELETED"
         /\ deleted' = deleted
         /\ slot' = NoSlot
         /\ \A p \in Procs : Replies(p) => reply'[p].status # "ok"]_vars

\* An exchange pending at the delete was answered already_deleted, with the
\* claimer announced again after the delete.
C12_Witness ==
    /\ invitation = "DELETED"
    /\ Token \in claimers_ready
    /\ \E p \in {"g1", "c1"} : ctx[p] = NoCtx /\ reply[p].status = "already_deleted"
    /\ \E p \in {"g1", "c1"} : pc[p] = "wait"

\* _conduit_talk of p's exchange runs in this step
TalkStep(p) == pc[p] = "talk" /\ pc'[p] # "talk"

\* Nothing of the conduit changed but p's own request
Untouched(p) ==
    /\ slot' = slot
    /\ \A q \in Procs \ {p} :
          /\ waiter'[q] = waiter[q]
          /\ pc'[q] = pc[q]
          /\ reply'[q] = reply[q]
          /\ ctx'[q] = ctx[q]

(* C16: a talk step on a token whose record is absent raises NOT_FOUND and *)
(* the RPC returns not_found; on a DELETED record a talk step of the       *)
(* greeter or the claimer raises ALREADY_DELETED and the RPC returns       *)
(* already_deleted.  In both cases no slot is created or modified, nothing *)
(* is deposited and no conduit_updated is published (no waiter is set).    *)
C16_TalkFailsWithoutEffect ==
    [][\A p \in Procs :
         TalkStep(p) =>
            /\ invitation = "ABSENT" =>
                  /\ pc'[p] = "idle" /\ reply'[p].status = "not_found"
                  /\ slot' = NoSlot /\ Untouched(p)
            /\ (invitation = "DELETED" /\ p \in {"g1", "c1"}) =>
                  /\ pc'[p] = "idle" /\ reply'[p].status = "already_deleted"
                  /\ slot' = NoSlot /\ Untouched(p)
      ]_vars

\* The greeter talked, listened and waits; the invitation was deleted; the
\* claimer's RPC then failed in its talk (the greeter was not woken).
C16_Witness ==
    /\ invitation = "DELETED"
    /\ pc["g1"] = "wait" /\ ~waiter["g1"]
    /\ pos["c1"] = 1 /\ reply["c1"].status = "already_deleted"

(* C18: a greeter-side conduit RPC sent by an authenticated user who is    *)
(* not the record's greeter returns not_found at its talk step and changes *)
(* nothing: no payload deposited, no reset, no waiter of the greeter or of *)
(* the claimer set, no pending exchange answered.                          *)
C18_OtherUserHasNoEffect ==
    [][\A p \in Others :
         /\ TalkStep(p) =>
               /\ pc'[p] = "idle" /\ reply'[p].status = "not_found"
               /\ Untouched(p)
         /\ pc[p] \notin {"wait", "listen"}
      ]_vars

\* The greeter's exchange is pending with its deposit in the slot and its
\* waiter not set, and the other user's RPC has been answered not_found.
C18_Witness ==
    /\ invitation = "IDLE"
    /\ pos["b1"] = 1 /\ reply["b1"].status = "not_found"
    /\ pc["g1"] = "wait" /\ ~waiter["g1"]
    /\ slot.greeter_payload # None

----------------------------------------------------------------------------
(* C13: once the greeter's invite_delete with reason FINISHED has returned *)
(* ok, every later invite_info for the token returns already_deleted.      *)
C13_InfoAfterFinished ==
    \A i, j \in 1..Len(adm_log) :
        ( /\ i < j
          /\ adm_log[i].cmd = "invite_delete"
          /\ adm_log[i].status = "ok"
          /\ adm_log[i].arg.reason = "FINISHED"
          /\ adm_log[j].cmd = "invite_info" )
        => adm_log[j].status = "already_deleted"

C17_DeleteNotFound ==
    [][Answered("invite_delete") =>
         /\ (invitation = "ABSENT" \/ user_id(LastReply.conn) # Owner) =>
               /\ LastReply.status = "not_found"
               /\ UNCHANGED <<invitation, deleted, slot, claimers_ready,
                              joined, invitations>>
         /\ LastReply.status = "not_found" =>
               (invitation = "ABSENT" \/ user_id(LastReply.conn) # Owner)
      ]_vars

\* Another user's delete was answered not_found on a live invitation that has a
\* slot and a claimer present: all three are still there.
C17_Witness ==
    /\ invitation = "IDLE"
    /\ slot = LeftSlot
    /\ Token \in claimers_ready
    /\ Len(adm_log) = 1
    /\ adm_log[1].cmd = "invite_delete" /\ adm_log[1].conn = "b1"
    /\ adm_log[1].status = "not_found"

----------------------------------------------------------------------------
(***************************************************************************)
(* invite_new: alice (g1), who has the token's invitation already, creates *)
(* invitations with any profile, type and send_email, and lists what she   *)
(* has.                                                                    *)
(***************************************************************************)
Creators == {"g1"}

NextNew ==
    \/ \E p \in Creators, type \in InvitationTypes, profile \in Profiles,
          send_email \in BOOLEAN : api_invite_new(p, type, profile, send_email)
    \/ \E p \in Creators : api_invite_list(p)

SpecNew == Init /\ [][NextNew]_vars

(* C19: invite_new for a USER invitation by a caller whose profile is not  *)
(* ADMIN returns not_allowed whatever send_email is; a token is returned   *)
(* only with status ok, and then exactly that record was added for the     *)
(* caller; with not_allowed or not_implemented the set of invitations is   *)
(* unchanged; a DEVICE invitation is created for every profile.            *)
C19_InviteNewAuthorization ==
    [][Answered("invite_new") =>
         LET e == LastReply
         IN  /\ e.status \in {"ok", "not_allowed", "not_implemented"}
             /\ (e.arg.type = "USER" /\ e.arg.profile # "ADMIN") =>
                    e.status = "not_allowed"
             /\ e.status # "ok" => (e.data = {} /\ invitations' = invitations)
             /\ e.status = "ok" =>
                    \E token \in NewTokens :
                       /\ e.data = {token}
                       /\ token \notin {r.token : r \in invitations}
                       /\ invitations' = invitations \cup
                              {create(e.arg.type, user_id(e.conn), token)}
             /\ e.arg.type = "DEVICE" => e.status = "ok"
      ]_vars

\* A USER invitation with send_email was refused to a STANDARD caller, a DEVICE
\* invitation was created for an OUTSIDER, and the list shows it next to the
\* token's invitation.
C19_Witness ==
    /\ Len(adm_log) = 3
    /\ adm_log[1].cmd = "invite_new"
    /\ adm_log[1].arg = NewArgs("USER", "STANDARD", TRUE)
    /\ adm_log[1].status = "not_allowed"
    /\ adm_log[2].cmd = "invite_new"
    /\ adm_log[2].arg = NewArgs("DEVICE", "OUTSIDER", TRUE)
    /\ adm_log[2].status = "ok"
    /\ adm_log[3].cmd = "invite_list"
    /\ Cardinality(adm_log[3].data) = 2

----------------------------------------------------------------------------
(***************************************************************************)
(* A complete claim: the happy path, after which the greeter deletes the   *)
(* invitation with reason FINISHED and lists its invitations               *)
(* (test_good_device_claim, scenario 1).                                   *)
(***************************************************************************)
ClaimDone(p) ==
    /\ pos[p] = Len(script[p])
    /\ pc[p] = "idle"
    /\ reply[p].status = "ok"

FinishDelete ==
    /\ ClaimDone("g1")
    /\ adm_log = << >>
    /\ api_invite_delete("g1", 1, "FINISHED")

FinishList ==
    /\ Len(adm_log) = 1
    /\ api_invite_list("g1")

NextClaim == NextScripted \/ FinishDelete \/ FinishList

SpecClaim == InitHappy /\ [][NextClaim]_vars

----------------------------------------------------------------------------
(***************************************************************************)
(* An exchange without peer: one connection sends one conduit RPC and no   *)
(* other connection ever sends anything.                                   *)
(***************************************************************************)
LoneProcs == Greeters \cup Claimers

InitLone ==
    /\ Idle
    /\ \E p \in LoneProcs :
         \E sc \in OneRequest(p) \ { << >> } :
            /\ RpcHasPayload(sc[1].rpc) <=> sc[1].payload # Empty
            /\ script = [q \in Procs |-> IF q = p THEN sc ELSE << >>]

SpecLone == InitLone /\ [][NextScripted]_vars /\ Fairness

(* C20: an exchange whose peer never deposits does not stay blocked: once  *)
(* it waits for conduit_updated it eventually ends (with a timeout after   *)
(* PEER_EVENT_MAX_WAIT seconds).                                           *)
C20_ExchangeTimesOut ==
    \A p \in LoneProcs : (pc[p] = "wait") ~> (pc[p] = "idle")

----------------------------------------------------------------------------
(***************************************************************************)
(* Cancellation: the slot is absent or stands cleared at any state; one of *)
(* g1, c1 sends a conduit RPC and its connection is closed while the        *)
(* exchange waits (after its talk); the other one then sends the RPC that  *)
(* starts at the same state.                                               *)
(***************************************************************************)
\* <<RPC of the greeter, RPC of the claimer>> whose first exchange is at the same state
SameStateRpcs ==
    { rr \in GreeterRpcs \X ClaimerRpcs :
         RpcSteps(rr[1])[1].state = RpcSteps(rr[2])[1].state }

RequestsOf(rpc) ==
    { Request(rpc, payload) :
         payload \in (IF RpcHasPayload(rpc) THEN PayloadValues ELSE {Empty}) }

InitCancel ==
    /\ invitation = "IDLE"
    /\ slot \in {NoSlot} \cup {FreshSlot(st) : st \in ConduitStates}
    /\ pc = [p \in Procs |-> "idle"]
    /\ req = [p \in Procs |-> NoRequest]
    /\ ctx = [p \in Procs |-> NoCtx]
    /\ waiter = [p \in Procs |-> FALSE]
    /\ reply = [p \in Procs |-> NoReply]
    /\ pos = [p \in Procs |-> 0]
    /\ del_rep = None
    /\ deleted = NoDeletion
    /\ claimers_ready = {}
    /\ invitations = {}
    /\ joined = {}
    /\ adm_log = << >>
    /\ \E rr \in SameStateRpcs :
         \E gr \in RequestsOf(rr[1]), cr \in RequestsOf(rr[2]) :
            script = [p \in Procs |->
                        CASE p = "g1" -> << gr >> [] p = "c1" -> << cr >> [] OTHER -> << >>]
    /\ others = [k \in OtherKeys |-> [invitation |-> "IDLE", slot |-> NoSlot]]
    /\ filter_key = [p \in Procs |-> Key]
    /\ RestInit

\* The connection of p was closed while its exchange was waiting
Cancelled(p) == reply[p].status = "cancelled"

\* The first of the two sends its request
FirstCall(p) ==
    /\ pos[Peer(p)] = 0 /\ pc[Peer(p)] = "idle"
    /\ ScriptCall(p)

\* Its connection closes at a suspension point of the waiting loop
HangUp(p) ==
    /\ pc[p] \in {"wait", "listen"}
    /\ pos[Peer(p)] = 0 /\ pc[Peer(p)] = "idle"
    /\ Cancel(p)

\* The peer sends its request afterwards
PeerCall(p) ==
    /\ Cancelled(Peer(p))
    /\ ScriptCall(p)

NextCancel ==
    \/ \E p \in Pair : FirstCall(p) \/ HangUp(p) \/ PeerCall(p)
    \/ Engine

SpecCancel == InitCancel /\ [][NextCancel]_vars

\* The exchange of p is cancelled in this step
HangsUp(p) == pc[p] \in {"wait", "listen"} /\ reply'[p].status = "cancelled"

\* The payload the first exchange of p's request deposits
FirstPayload(p) == ExchangePayload(script[p][1])

----------------------------------------------------------------------------
\* In the duplicate-deposit model: the two connections of the duplicated side,
\* and the connection of the other side.
DupCallers ==
    {p \in Procs : \E p2 \in Procs \ {p} :
        script[p] # << >> /\ script[p2] # << >> /\ is_greeter(p2) = is_greeter(p)}

LoneCaller == CHOOSE q \in Procs : script[q] # << >> /\ q \notin DupCallers

\* p's request has been answered ok
ReturnedOk(p) == pos[p] = 1 /\ reply[p].status = "ok"

----------------------------------------------------------------------------
\* The engine step (_conduit_talk or _conduit_listen) of p's handler runs in this step
EngineStep(p) == pc[p] \in {"talk", "listen"} /\ pc'[p] # pc[p]

\* The exception that step raises, or None
EngineError(p) ==
    IF pc[p] = "talk"
    THEN IF invitation = "ABSENT" \/ (is_greeter(p) /\ user_id(p) # Owner)
         THEN "InvitationNotFoundError"
         ELSE IF invitation = "DELETED" THEN "InvitationAlreadyDeletedError"
         ELSE None
    ELSE IF invitation = "DELETED" THEN "InvitationAlreadyDeletedError"
         ELSE ConduitListen(slot, ctx[p]).raised

\* The exchange of p returns a payload in this step
ExchangeReturns(p) ==
    /\ pc[p] = "listen"
    /\ EngineError(p) = None
    /\ ConduitListen(slot, ctx[p]).payload # None

(* C23: whenever the engine step of a conduit handler raises, the handler  *)
(* returns at once with the wire status of that error and no payload       *)
(* (NOT_FOUND: not_found, ALREADY_DELETED: already_deleted, INVALID_STATE: *)
(* invalid_state); it returns ok only at the end of its last exchange, and *)
(* goes from one exchange to the next only when the exchange returned a    *)
(* payload.                                                                *)
C23_ErrorsMappedToStatus ==
    [][\A p \in Procs :
         EngineStep(p) =>
            /\ EngineError(p) = "InvitationNotFoundError" =>
                  (Replies(p) /\ reply'[p] = Reply(req[p].rpc, "not_found", None))
            /\ EngineError(p) = "InvitationAlreadyDeletedError" =>
                  (Replies(p) /\ reply'[p] = Reply(req[p].rpc, "already_deleted", None))
            /\ EngineError(p) = "InvitationInvalidStateError" =>
                  (Replies(p) /\ reply'[p] = Reply(req[p].rpc, "invalid_state", None))
            /\ (Replies(p) /\ reply'[p].status = "ok") =>
                  (ExchangeReturns(p) /\ req[p].step = Len(RpcSteps(req[p].rpc)))
            /\ (~Replies(p) /\ req'[p].step # req[p].step) =>
                  (ExchangeReturns(p) /\ req'[p].step = req[p].step + 1)
            /\ Replies(p) => reply'[p].rpc = req[p].rpc
      ]_vars

\* The greeter's exchange found the conduit reset by the claimer's talk and was
\* answered invalid_state; the invitation was then deleted and the claimer's
\* exchange was answered already_deleted.
C23_Witness ==
    /\ pos["g1"] = 1 /\ reply["g1"].status = "invalid_state"
    /\ pos["c1"] = 1 /\ reply["c1"].status = "already_deleted"
    /\ invitation = "DELETED"

----------------------------------------------------------------------------
(***************************************************************************)
(* Retry: two connections of the same side send the same RPC with the same *)
(* payload (a client that repeats its request on a second connection)      *)
(* while one connection of the other side sends its RPC for the same       *)
(* state; every connection sends that one request.                         *)
(***************************************************************************)
InitRetry ==
    /\ Idle
    /\ \E rr \in DupRpcs :
         \E r \in RequestsOf(rr[1]), z \in RequestsOf(rr[2]) :
            script =
              IF rr[1] \in ClaimerRpcs
              THEN [p \in Procs |->
                      CASE p \in Claimers -> << r >> [] p = "g1" -> << z >> [] OTHER -> << >>]
              ELSE [p \in Procs |->
                      CASE p \in Greeters -> << r >> [] p = "c1" -> << z >> [] OTHER -> << >>]

SpecRetry == InitRetry /\ [][NextScripted]_vars

\* Both payloads are in the slot and both sides have consumed
FullyConsumed(s) ==
    /\ s.claimer_payload # None /\ s.greeter_payload # None
    /\ s.claimer_consumed /\ s.greeter_consumed

\* s is the cleared slot at the state that follows st in the order of the enum
\* (STATE_4_COMMUNICATE follows itself)
ClearedAfter(s, st) ==
    \E nx \in ConduitStates :
        /\ s = FreshSlot(nx)
        /\ StateIndex(nx) = (IF StateIndex(st) = Len(ConduitState)
                             THEN StateIndex(st) ELSE StateIndex(st) + 1)

(* C24 as stated: no talk or listen step leaves a slot in which both       *)
(* payloads are present and both consumed flags are true (the step that    *)
(* reaches the condition advances the slot at once).                       *)
C24_NeverFullyConsumed == ~FullyConsumed(slot)

(* C24 as amended: no listen step leaves such a slot: the listen that sets *)
(* the second consumed flag advances the slot to NEXT(state) with payloads *)
(* absent and flags false.  A talk step does leave such a slot when it     *)
(* re-deposits an equal payload after the peer has consumed; the talker's  *)
(* waiter is then set, and a listen on that slot that does not raise       *)
(* advances it.                                                            *)
C24_ListenAdvancesTalkDoesNot ==
    [][\A p \in Procs :
         /\ Listens(p) => ~FullyConsumed(slot')
         /\ (Listens(p) /\ slot' # slot) =>
               \/ slot' = Consume(slot, is_greeter(p))
               \/ ClearedAfter(slot', slot.state)
         /\ (Talks(p) /\ FullyConsumed(slot')) =>
               /\ slot.state = ExchangeState(req[p])
               /\ OurPayload(slot, is_greeter(p)) = ExchangePayload(req[p])
               /\ PeerPayload(slot', is_greeter(p)) = PeerPayload(slot, is_greeter(p))
               /\ waiter'[p]
         /\ (Listens(p) /\ FullyConsumed(slot)) =>
               \/ ClearedAfter(slot', slot.state)
               \/ reply'[p].status = "invalid_state" /\ slot' = slot
      ]_vars

\* The retry's talk has left both payloads in the slot with both flags set, and
\* its listen has not run yet.
C24_Witness ==
    /\ FullyConsumed(slot)
    /\ \E p \in Procs : pc[p] = "wait" /\ waiter[p] /\ Deposited(p)
    /\ ReturnedOk(LoneCaller)

----------------------------------------------------------------------------
\* _conduit_talk of p runs in this step with an expected state that is not the
\* state of the slot (a token without slot stands at STATE_1_WAIT_PEERS)
MismatchTalk(p) ==
    /\ Talks(p)
    /\ load_or_init(slot).state # ExchangeState(req[p])

----------------------------------------------------------------------------
\* _conduit_talk of p deposits, at the slot's current state, the payload its side
\* has already deposited there.
ReDeposit(p) ==
    /\ Talks(p)
    /\ slot.state = ExchangeState(req[p])
    /\ OurPayload(slot, is_greeter(p)) = ExchangePayload(req[p])

----------------------------------------------------------------------------
\* The handlers that chain two exchanges: <<state and payload of the first,
\* state of the second>> as written in the handlers
ChainedRpcs == {"invite_2a_claimer_send_hashed_nonce", "invite_2b_greeter_send_nonce"}

FirstState(rpc) ==
    IF rpc = "invite_2a_claimer_send_hashed_nonce"
    THEN STATE_2_1_CLAIMER_HASHED_NONCE ELSE STATE_2_2_GREETER_NONCE

SecondState(rpc) ==
    IF rpc = "invite_2a_claimer_send_hashed_nonce"
    THEN STATE_2_2_GREETER_NONCE ELSE STATE_2_3_CLAIMER_NONCE

(* C27: a chained handler (2a claimer: states 2_1 then 2_2; 2b greeter:    *)
(* states 2_2 then 2_3) first deposits the request's payload at its first  *)
(* state; it deposits b"" at its second state only after a listen of the   *)
(* first exchange returned a payload; if a step of the first exchange      *)
(* raises, the request ends there with the slot as it was; and its ok      *)
(* response carries the payload returned by the second exchange.           *)
C27_ChainedExchangesInOrder ==
    [][\A p \in Pair :
         (pc[p] # "idle" /\ req[p].rpc \in ChainedRpcs) =>
            /\ (Talks(p) /\ req[p].step = 1) =>
                  /\ slot'.state = FirstState(req[p].rpc)
                  /\ OurPayload(slot', is_greeter(p)) = req[p].payload
            /\ (Talks(p) /\ req[p].step = 2) =>
                  /\ slot'.state = SecondState(req[p].rpc)
                  /\ OurPayload(slot', is_greeter(p)) = Empty
            /\ req'[p].step = 2 =>
                  \/ req[p].step = 2
                  \/ /\ ExchangeReturns(p)
                     /\ ctx[p].state = FirstState(req[p].rpc)
                     /\ pc'[p] = "talk"
                     /\ OurPayload(slot', is_greeter(p)) # Empty
            /\ (EngineStep(p) /\ req[p].step = 1 /\ EngineError(p) # None) =>
                  /\ Replies(p) /\ reply'[p].status = ErrorStatus(EngineError(p))
                  /\ slot' = slot
            /\ (Replies(p) /\ reply'[p].status = "ok") =>
                  /\ req[p].step = 2
                  /\ ctx[p].state = SecondState(req[p].rpc)
                  /\ reply'[p].payload = PeerPayload(slot, is_greeter(p))
                  /\ \E i \in 1..Len(script[Peer(p)]) :
                        /\ RpcSteps(script[Peer(p)][i].rpc)[1].state =
                              SecondState(req[p].rpc)
                        /\ reply'[p].payload = script[Peer(p)][i].payload
      ]_vars

\* The claimer's 2a request returned the greeter's nonce (its first exchange had
\* returned b""), and the greeter's 2b request is in its second exchange.
C27_Witness ==
    /\ reply["c1"] = Reply("invite_2a_claimer_send_hashed_nonce", "ok", "gn")
    /\ req["g1"].rpc = "invite_2b_greeter_send_nonce"
    /\ req["g1"].step = 2
    /\ pc["g1"] = "wait"

----------------------------------------------------------------------------
\* p is blocked in waiter.wait(): its event is not set
Blocked(p) == pc[p] = "wait" /\ ~waiter[p]

(* C28: no lost wakeup.  Every step that saves a changed slot of a live    *)
(* invitation leaves the event set for every exchange that is in           *)
(* waiter.wait(), so that its next listen runs on the changed slot; and an *)
(* exchange of a live invitation is blocked in waiter.wait() only while    *)
(* the slot is at its state, holds its deposit and holds no payload of the *)
(* peer (a listen would return None).                                      *)
C28_NoLostWakeup ==
    /\ [][(slot' # slot /\ invitation' = "IDLE") =>
            \A p \in Procs : pc'[p] = "wait" => waiter'[p]]_vars
    /\ [](\A p \in Procs :
            (Blocked(p) /\ invitation = "IDLE") =>
                /\ Deposited(p)
                /\ PeerPayload(slot, is_greeter(p)) = None
                /\ ConduitListen(slot, ctx[p]) = ListenResult(slot, None, None, FALSE))

\* An exchange that talked first (no peer payload in its context) and has
\* listened since is in waiter.wait() with its event set, and the peer's payload
\* is in the slot.
C28_Witness ==
    \E p \in Procs, q \in Procs :
        /\ pc[p] = "wait" /\ waiter[p]
        /\ Deposited(p)
        /\ ctx[p].peer_payload = None
        /\ PeerPayload(slot, is_greeter(p)) # None
        /\ is_greeter(q) # is_greeter(p)
        /\ pc[q] = "listen"
        /\ ctx[q].peer_payload = ctx[p].payload

----------------------------------------------------------------------------
TrustStates == {STATE_3_1_CLAIMER_TRUST, STATE_3_2_GREETER_TRUST}

\* The payload of the given side in slot s2 is present and was not there in s1
NewPayload(s1, s2, greeter) ==
    /\ OurPayload(s2, greeter) # None
    /\ \/ OurPayload(s1, greeter) # OurPayload(s2, greeter)
       \/ s1.state # s2.state

(* C29: an exchange returns a payload only when the peer's payload is in   *)
(* the slot at the exchange's state; a payload is in the slot only from a  *)
(* talk of its side for the slot's state, and none survives the slot's     *)
(* entering another state (advance or reset), so the payload returned was  *)
(* deposited after the slot last entered or was reset to that state.  At   *)
(* STATE_3_1_CLAIMER_TRUST and STATE_3_2_GREETER_TRUST a listen that finds *)
(* the peer's payload absent goes back to waiting, and one that finds the  *)
(* peer's b"" returns.                                                     *)
C29_OkOnlyOnPeerDeposit ==
    [][/\ \A p \in Procs :
            /\ (Listens(p) /\ (Replies(p) => reply'[p].status = "ok")
                           /\ pc'[p] # "wait") =>
                  /\ slot.state = ctx[p].state
                  /\ PeerPayload(slot, is_greeter(p)) # None
            /\ (Listens(p) /\ invitation = "IDLE" /\ Deposited(p)
                           /\ ctx[p].state \in TrustStates) =>
                  /\ ctx[p].payload = Empty
                  /\ PeerPayload(slot, is_greeter(p)) = None =>
                        (pc'[p] = "wait" /\ reply'[p] = reply[p] /\ slot' = slot)
                  /\ PeerPayload(slot, is_greeter(p)) # None =>
                        /\ PeerPayload(slot, is_greeter(p)) = Empty
                        /\ Replies(p)
                        /\ reply'[p] = Reply(req[p].rpc, "ok", None)
       /\ \A side \in BOOLEAN :
            NewPayload(slot, slot', side) =>
               \E p \in Procs :
                  /\ is_greeter(p) = side
                  /\ Talks(p)
                  /\ slot'.state = ExchangeState(req[p])
                  /\ OurPayload(slot', side) = ExchangePayload(req[p])
      ]_vars

\* Both 3a requests returned ok: the greeter, waiting for the claimer's trust
\* signal, returned on the claimer's b"", and the slot advanced.
C29_Witness ==
    /\ reply["g1"] = Reply("invite_3a_greeter_wait_peer_trust", "ok", None)
    /\ \E c \in Claimers : reply[c] = Reply("invite_3a_claimer_signify_trust", "ok", None)
    /\ slot = FreshSlot(STATE_3_2_GREETER_TRUST)

----------------------------------------------------------------------------
(***************************************************************************)
(* Two invitations at once: g1 and c1 work on the invitation of Key, g2    *)
(* and c2 on that of one other key (another token of the organization, or  *)
(* the same token value in another organization).  Each of them sends one *)
(* RPC, and either invitation may be deleted at any time.                  *)
(***************************************************************************)
KeyProcs == {"g2", "c2"}

InitTokens ==
    /\ invitation = "IDLE"
    /\ slot = NoSlot
    /\ pc = [p \in Procs |-> "idle"]
    /\ req = [p \in Procs |-> NoRequest]
    /\ ctx = [p \in Procs |-> NoCtx]
    /\ waiter = [p \in Procs |-> FALSE]
    /\ reply = [p \in Procs |-> NoReply]
    /\ pos = [p \in Procs |-> 0]
    /\ script = [p \in Procs |-> << >>]
    /\ del_rep = None
    /\ deleted = NoDeletion
    /\ claimers_ready = {}
    /\ invitations = {}
    /\ joined = {}
    /\ adm_log = << >>
    /\ others = [k \in OtherKeys |-> [invitation |-> "IDLE", slot |-> NoSlot]]
    /\ \E k \in OtherKeys :
         filter_key = [p \in Procs |-> IF p \in KeyProcs THEN k ELSE Key]
    /\ RestInit

\* delete of the invitation of another key: its record becomes DELETED and its
\* slot is discarded
DeleteOther(k) ==
    /\ others[k].invitation = "IDLE"
    /\ others' = [others EXCEPT ![k] = [invitation |-> "DELETED", slot |-> NoSlot]]
    /\ UNCHANGED <<invitation, slot, pc, req, ctx, waiter, reply, pos, script, del_rep,
                   deleted, claimers_ready, invitations, joined, adm_log, filter_key>>
    /\ UNCHANGED rest_vars

\* The requests sent: a key exchange (state 1_WAIT_PEERS) or, by a claimer, the
\* first trust exchange (state 3_1), which resets a slot that stands elsewhere
TokenRequests ==
    { Request("invite_1_greeter_wait_peer", "x"),
      Request("invite_1_claimer_wait_peer", "y"),
      Request("invite_3a_claimer_signify_trust", Empty) }

\* Each connection sends one request.
OneCall(p) ==
    /\ pos[p] = 0
    /\ \E r \in TokenRequests : r.rpc \in RpcsOf(p) /\ Begin(p, r)

NextTokens ==
    \/ \E p \in Greeters \cup Claimers : OneCall(p)
    \/ Engine
    \/ Delete
    \/ \E k \in OtherKeys : DeleteOther(k)

SpecTokens == InitTokens /\ [][NextTokens]_vars

\* The step is a talk, listen, reset or delete on the invitation of k.
Touched(k) ==
    \/ InvitationOf(k)' # InvitationOf(k)
    \/ SlotOf(k)' # SlotOf(k)
    \/ \E p \in Procs : filter_key[p] = k /\ EngineStep(p)

(* C30: invitations of different tokens proceed independently.  A talk,    *)
(* listen, reset or delete on one (organization, token) leaves the slot    *)
(* and the record of every other one unchanged, and the conduit_updated it *)
(* publishes neither wakes, completes nor fails an exchange pending on     *)
(* another one: that exchange's waiter, position, context and response     *)
(* stay as they were.                                                      *)
C30_TokensIndependent ==
    [][\A k1 \in Keys :
          Touched(k1) =>
             \A k2 \in Keys \ {k1} :
                /\ InvitationOf(k2)' = InvitationOf(k2)
                /\ SlotOf(k2)' = SlotOf(k2)
                /\ \A q \in Procs :
                      filter_key[q] = k2 =>
                         /\ waiter'[q] = waiter[q]
                         /\ pc'[q] = pc[q]
                         /\ ctx'[q] = ctx[q]
                         /\ reply'[q] = reply[q]
      ]_vars

\* The claimer c1 waits on Key with its deposit in Key's slot while the greeter
\* g2 waits on another key with its deposit in that key's slot, at another state.
C30_Witness ==
    /\ filter_key["g2"] # Key
    /\ Blocked("c1") /\ slot.claimer_payload # None
    /\ Blocked("g2") /\ SlotOf(filter_key["g2"]).greeter_payload # None
    /\ SlotOf(filter_key["g2"]).state # slot.state

----------------------------------------------------------------------------
(***************************************************************************)
(* The claimer presence tracker alone: status_changed events arrive in any *)
(* order, for any organization, token and status.                          *)
(***************************************************************************)
\* The event bus delivers invite.status_changed to _on_status_changed.
status_changed(org, token, status) ==
    /\ IF org = Org
       THEN /\ claimers_ready' = on_status_changed(claimers_ready, token, status)
            /\ ready_others' = ready_others
       ELSE /\ claimers_ready' = claimers_ready
            /\ ready_others' = [ready_others EXCEPT
                                  ![org] = on_status_changed(@, token, status)]
    /\ last_status' = [last_status EXCEPT ![<<org, token>>] = status]
    /\ UNCHANGED conduit_vars
    /\ UNCHANGED <<deleted, invitations, joined, adm_log>>
    /\ UNCHANGED key_vars
    /\ UNCHANGED monitor_vars

NextPresence ==
    \E org \in Orgs, token \in Tokens, status \in InvitationStatuses :
        status_changed(org, token, status)

SpecPresence == Init /\ [][NextPresence]_vars

IsReady(k) == k[2] \in ReadyOf(k[1])

(* C31: a token is in the ready set of its organization exactly when the   *)
(* latest status_changed event for that organization and token carried     *)
(* READY, and an event changes the membership of no other organization or  *)
(* token than its own.                                                     *)
C31_ReadyIffLastEventReady ==
    /\ [](\A k \in Orgs \X Tokens : IsReady(k) <=> last_status[k] = "READY")
    /\ [][\A k \in Orgs \X Tokens :
             IsReady(k)' # IsReady(k) =>
                /\ last_status'[k] # last_status[k]
                /\ \A k2 \in (Orgs \X Tokens) \ {k} :
                      /\ IsReady(k2)' = IsReady(k2)
                      /\ last_status'[k2] = last_status[k2]
        ]_vars

\* Every status has been the latest one somewhere: the token is ready in one
\* organization and deleted in the other, the other token came and went.
C31_Witness ==
    /\ last_status[<<Org, Token>>] = "READY" /\ Token \in claimers_ready
    /\ last_status[<<"Org2", Token>>] = "DELETED" /\ Token \notin ready_others["Org2"]
    /\ last_status[<<Org, OtherToken>>] = "IDLE" /\ OtherToken \notin claimers_ready
    /\ last_status[<<"Org2", OtherToken>>] = "READY"

----------------------------------------------------------------------------
(* C32 as stated: a conduit slot exists exactly when a record that is not  *)
(* deleted exists.                                                         *)
C32_SlotIffLiveRecord ==
    (slot # NoSlot) <=> (invitation = "IDLE")

(* C32: a conduit slot exists only while a record that is not deleted      *)
(* exists.  The slot is created by the first talk on such a record and not *)
(* before, a talk that passed leaves a slot, and the slot is discarded by  *)
(* the delete of the record and by nothing else.                           *)
C32_SlotOnlyWithLiveRecord ==
    /\ [](slot # NoSlot => invitation = "IDLE")
    /\ [][/\ (slot = NoSlot /\ slot' # NoSlot) =>
                \E p \in Procs : Talks(p) /\ invitation = "IDLE"
          /\ \A p \in Procs : Talks(p) => slot' # NoSlot
          /\ (slot # NoSlot /\ slot' = NoSlot) =>
                (invitation = "IDLE" /\ invitation' = "DELETED")
        ]_vars

\* Both sides exchanged their keys on the slot the first talk created; the
\* delete that followed discarded it.
C32_Witness ==
    /\ invitation = "DELETED"
    /\ slot = NoSlot
    /\ reply["g1"] = Reply("invite_1_greeter_wait_peer", "ok", "x")
    /\ reply["c1"].status = "ok"

----------------------------------------------------------------------------
\* A claimer connection opens / closes in this step.
Joins(c) == c \notin joined /\ c \in joined'
Leaves(c) == c \in joined /\ c \notin joined'

(* C33: the presence drift.  When a claimer connection closes, the token   *)
(* is taken out of the ready set even if another claimer connection of the *)
(* same token is still open, and it comes back only in a step in which a   *)
(* new claimer connection opens.                                           *)
C33_PresenceDrift ==
    [][/\ \A c \in Claimers : Leaves(c) => Token \notin claimers_ready'
       /\ (Token \notin claimers_ready /\ Token \in claimers_ready') =>
             \E c \in Claimers : Joins(c)
      ]_vars

\* The record is live and a claimer connection is open, yet the token is not
\* ready: the claimer's other connection closed.
C33_Witness ==
    /\ invitation = "IDLE"
    /\ joined # {}
    /\ Token \notin claimers_ready

----------------------------------------------------------------------------
(* C34: in every slot a side's consumed flag is set only if the payload of *)
(* its peer is present: claimer_consumed implies a greeter payload,        *)
(* greeter_consumed implies a claimer payload.                             *)
C34_ConsumedImpliesPeerPayload ==
    /\ slot.claimer_consumed => slot.greeter_payload # None
    /\ slot.greeter_consumed => slot.claimer_payload # None

\* The claimer has observed the greeter's payload; the greeter, which talked
\* first and was woken by the claimer's talk, has not yet observed the claimer's.
C34_Witness ==
    /\ slot.claimer_consumed /\ slot.greeter_payload # None
    /\ ~slot.greeter_consumed /\ slot.claimer_payload # None
    /\ \E g \in Greeters : Deposited(g) /\ waiter[g]

----------------------------------------------------------------------------
\* The listen of p found no peer payload, or failed
ListenNone(p) == Listens(p) /\ pc'[p] = "wait"
ListenFails(p) ==
    /\ Listens(p)
    /\ Replies(p)
    /\ reply'[p].status \in {"not_found", "already_deleted", "invalid_state"}

\* A step of another connection that saves the slot and publishes conduit_updated
SavedByOther(p) ==
    \E q \in Procs \ {p} : Talks(q) \/ (Listens(q) /\ slot' # slot)

(* C35: a listen that returns None or fails with not_found,                *)
(* already_deleted or invalid_state leaves the slot as it was and wakes no *)
(* waiter, its own included; an exchange that waits with its event cleared *)
(* does not listen again, and its event is set again only by the talk or   *)
(* the listen of another connection that saves the slot.                   *)
C35_FruitlessListenIsSilent ==
    [][\A p \in Procs :
          /\ (ListenNone(p) \/ ListenFails(p)) =>
                /\ slot' = slot
                /\ \A q \in Procs \ {p} : waiter'[q] = waiter[q]
          /\ ListenNone(p) => waiter'[p] = waiter[p]
          /\ Blocked(p) => pc'[p] = "wait"
          /\ (Blocked(p) /\ waiter'[p]) => SavedByOther(p)
      ]_vars

\* A claimer that reset the conduit waits, its event cleared, on its own
\* deposit alone; the greeter's listen has failed with invalid_state.
C35_Witness ==
    /\ Blocked("c1") /\ Deposited("c1")
    /\ slot.greeter_payload = None
    /\ reply["g1"].status = "invalid_state"

----------------------------------------------------------------------------
\* NEXT_CONDUIT_STATE applied n times
RECURSIVE NextTimes(_, _)
NextTimes(s, n) == IF n = 0 THEN s ELSE NextTimes(NEXT_CONDUIT_STATE(s), n - 1)

LastIndex == Len(ConduitState)

\* The slot of a round both sides had deposited for was cleared in this step
RoundCleared ==
    /\ slot.claimer_payload # None /\ slot.greeter_payload # None
    /\ slot' = FreshSlot(slot'.state)

(* C36: NEXT_CONDUIT_STATE is defined on each of the seven conduit states  *)
(* and maps each to the state that follows it in the order of the enum,    *)
(* STATE_4_COMMUNICATE to itself; STATE_4_COMMUNICATE is its only fixed    *)
(* point, no state is mapped to an earlier one, and six applications at    *)
(* most lead from any state to STATE_4_COMMUNICATE.  On the happy path     *)
(* every round that completes moves the slot as the table says.            *)
C36_NextConduitStateTable ==
    /\ [](\A s \in ConduitStates :
            /\ NEXT_CONDUIT_STATE(s) \in ConduitStates
            /\ StateIndex(NEXT_CONDUIT_STATE(s)) =
                  (IF StateIndex(s) < LastIndex THEN StateIndex(s) + 1 ELSE LastIndex)
            /\ StateIndex(NEXT_CONDUIT_STATE(s)) >= StateIndex(s)
            /\ (NEXT_CONDUIT_STATE(s) = s) <=> (s = STATE_4_COMMUNICATE)
            /\ \E n \in 0..(LastIndex - 1) : NextTimes(s, n) = STATE_4_COMMUNICATE
            /\ NextTimes(s, LastIndex - StateIndex(s)) = STATE_4_COMMUNICATE)
    /\ LastIndex = 7
    /\ [][RoundCleared =>
             StateIndex(slot'.state) =
                (IF StateIndex(slot.state) < LastIndex
                 THEN StateIndex(slot.state) + 1 ELSE LastIndex)
        ]_vars

\* The handshake went through the seven states and a communicate round was
\* completed at STATE_4_COMMUNICATE, which left the slot cleared at that state.
C36_Witness ==
    /\ slot = FreshSlot(STATE_4_COMMUNICATE)
    /\ reply["g1"].rpc = "invite_4_greeter_communicate" /\ reply["g1"].status = "ok"
    /\ reply["c1"].rpc = "invite_4_claimer_communicate" /\ reply["c1"].status = "ok"

----------------------------------------------------------------------------
(***************************************************************************)
(* monitor_messages (parsec/core/messages_monitor.py).  The task runs      *)
(* between checkpoints; the handlers connected to the event bus run inside *)
(* the task that sends the event, while the monitor stands at an await.    *)
(* mon_pc is the await the monitor stands at:                              *)
(*   online_parked  backend_online_event.wait(), the event was not set     *)
(*   online_ready   the same wait, rescheduled: the event was set when it  *)
(*                  was reached (checkpoint) or has been set since         *)
(*   processing     fs.process_messages()                                  *)
(*   msg_parked     msg_arrived.wait(), the event was not set              *)
(*   msg_ready      the same wait, rescheduled                             *)
(* trio.Event.wait() parks the task or, if the event is set, yields once;  *)
(* set() reschedules the parked tasks, and a rescheduled task resumes      *)
(* whatever happens to the event before it runs.                           *)
(***************************************************************************)
\* Bound on the message events fired
MaxMsgs == 4

MessageEvents == {"backend.message.received", "backend.message.polling_needed"}

invite_frame == <<conduit_vars, store_vars, key_vars, presence_vars>>

\* await backend_online_event.wait() is reached (line 34)
AtOnlineWait == IF backend_online_event THEN "online_ready" ELSE "online_parked"

\* _on_msg_arrived, connected to both message events
on_msg_arrived(event) ==
    /\ event \in MessageEvents
    /\ msg_index < MaxMsgs
    /\ msg_index' = msg_index + 1
    /\ msg_arrived' = TRUE
    /\ mon_pc' = IF mon_pc = "msg_parked" THEN "msg_ready" ELSE mon_pc
    /\ notified' = IF backend = "online" THEN notified \cup {"message"} ELSE notified
    /\ UNCHANGED <<backend_online_event, process_message_cancel_scope, backend>>
    /\ UNCHANGED invite_frame

\* backend.online fires: _on_backend_online
on_backend_online ==
    /\ backend = "offline"
    /\ backend' = "online"
    /\ backend_online_event' = TRUE
    /\ mon_pc' = IF mon_pc = "online_parked" THEN "online_ready" ELSE mon_pc
    /\ notified' = notified \cup {"online"}
    /\ UNCHANGED <<msg_arrived, process_message_cancel_scope, msg_index>>
    /\ UNCHANGED invite_frame

\* backend.offline fires: _on_backend_offline
on_backend_offline ==
    /\ backend = "online"
    /\ backend' = "offline"
    /\ backend_online_event' = FALSE
    /\ process_message_cancel_scope' =
          IF process_message_cancel_scope # None THEN "cancelled"
          ELSE process_message_cancel_scope
    /\ UNCHANGED <<msg_arrived, mon_pc, msg_index, notified>>
    /\ UNCHANGED invite_frame

\* Lines 34-40: the wait returns, the cancel scope is opened and
\* fs.process_messages is called.
StartProcessing ==
    /\ mon_pc = "online_ready"
    /\ process_message_cancel_scope' = "open"
    /\ mon_pc' = "processing"
    /\ notified' = {}
    /\ UNCHANGED <<msg_arrived, backend_online_event, backend, msg_index>>
    /\ UNCHANGED invite_frame

\* A waiting loop that clears msg_arrived before it waits on it:
\* msg_arrived.clear(); await msg_arrived.wait()
ProcessReturnsClearsFirst(raised) ==
    /\ raised \in {None, "SharingError"}
    /\ mon_pc = "processing"
    /\ process_message_cancel_scope = "open"
    /\ msg_arrived' = FALSE
    /\ mon_pc' = "msg_parked"
    /\ UNCHANGED <<backend_online_event, process_message_cancel_scope,
                   backend, msg_index, notified>>
    /\ UNCHANGED invite_frame

\* Lines 40-43: fs.process_messages returns or raises SharingError (logged);
\* msg_arrived.wait() is reached.
ProcessReturns(raised) ==
    /\ raised \in {None, "SharingError"}
    /\ mon_pc = "processing"
    /\ process_message_cancel_scope = "open"
    /\ mon_pc' = IF msg_arrived THEN "msg_ready" ELSE "msg_parked"
    /\ UNCHANGED <<msg_arrived, backend_online_event, process_message_cancel_scope,
                   backend, msg_index, notified>>
    /\ UNCHANGED invite_frame

\* Lines 46-48 and 34: fs.process_messages raises BackendNotAvailable.
ProcessUnavailable ==
    /\ mon_pc = "processing"
    /\ process_message_cancel_scope' = None
    /\ mon_pc' = AtOnlineWait
    /\ UNCHANGED <<msg_arrived, backend_online_event, backend, msg_index, notified>>
    /\ UNCHANGED invite_frame

\* Lines 43-44 and 40: the wait returns, msg_arrived is cleared and
\* fs.process_messages is called again.
NextMessage ==
    /\ mon_pc = "msg_ready"
    /\ msg_arrived' = FALSE
    /\ mon_pc' = "processing"
    /\ notified' = {}
    /\ UNCHANGED <<backend_online_event, process_message_cancel_scope, backend, msg_index>>
    /\ UNCHANGED invite_frame

\* The cancelled scope raises Cancelled at the await the task stands at and
\* absorbs it; lines 48 and 34.  A task already rescheduled by msg_arrived.set()
\* may resume normally instead (NextMessage).
ScopeCancelled ==
    /\ process_message_cancel_scope = "cancelled"
    /\ mon_pc \in {"processing", "msg_parked", "msg_ready"}
    /\ process_message_cancel_scope' = None
    /\ mon_pc' = AtOnlineWait
    /\ UNCHANGED <<msg_arrived, backend_online_event, backend, msg_index, notified>>
    /\ UNCHANGED invite_frame

MonitorStep ==
    \/ StartProcessing
    \/ \E raised \in {None, "SharingError"} : ProcessReturns(raised)
    \/ ProcessUnavailable
    \/ NextMessage
    \/ ScopeCancelled

NextMonitor ==
    \/ \E event \in MessageEvents : on_msg_arrived(event)
    \/ on_backend_online
    \/ on_backend_offline
    \/ MonitorStep

\* The scheduler runs the monitor when it can run, fs.process_messages ends,
\* and a backend that is offline comes back online.
MonitorFairness ==
    /\ WF_vars(StartProcessing)
    /\ WF_vars(\E raised \in {None, "SharingError"} : ProcessReturns(raised))
    /\ WF_vars(NextMessage)
    /\ WF_vars(ScopeCancelled)
    /\ WF_vars(on_backend_online)

SpecMonitor == Init /\ [][NextMonitor]_vars /\ MonitorFairness

\* fs.process_messages is called in this step
CallStarts == mon_pc # "processing" /\ mon_pc' = "processing"

----------------------------------------------------------------------------
\* backend.offline fires in this step while the monitor is inside its
\* process_messages loop
OfflineInLoop ==
    /\ backend = "online" /\ backend' = "offline"
    /\ mon_pc \in {"processing", "msg_parked", "msg_ready"}

(* C38: monitor_messages processes messages only while online.  A          *)
(* backend.offline event cancels the cancel scope of the running           *)
(* process_messages loop, fs.process_messages is never called while the    *)
(* last backend event is backend.offline, and after backend.online         *)
(* fs.process_messages is called.                                          *)
C38_ProcessOnlyWhileOnline ==
    /\ [][OfflineInLoop => process_message_cancel_scope' = "cancelled"]_vars
    /\ [][CallStarts => backend = "online"]_vars
    /\ (("online" \in notified) ~> ("online" \notin notified))

====
